---------------------------- MODULE Spec2Model ----------------------------
(***************************************************************************)
(* Coordination core of the CouncilOfAgents (Project AETHER) backend:      *)
(* the message bus, the claim model, the resolution tracker, the agent     *)
(* registry and role policy, the integrity checker, the agents and the     *)
(* Orchestrator.analyze pipeline that drives them.                         *)
(*                                                                         *)
(* Strings returned by the text-completion oracle are modelled by what the *)
(* code reads from them: sequences of tokens for the critic's response     *)
(* (the RESOLUTION: regex and the keyword fallback look at them), the set  *)
(* of markers contained and the length for a rebuttal.  Confidence values  *)
(* are kept in tenths (0.7 is 7).                                          *)
(*                                                                         *)
(* Specifications:                                                         *)
(*   Spec          one Orchestrator.analyze session, explicit calls and    *)
(*                 reactive subscriptions together                         *)
(*   SpecClaim     one Claim object under arbitrary method calls           *)
(*   SpecBus       the idempotency map of the MessageBus under arbitrary   *)
(*                 mark_handled / is_handled_by / clear calls              *)
(*   SpecIntegrity the IntegrityChecker applied to arbitrary tracker and   *)
(*                 synthesis contents                                      *)
(*   SpecHandlers  a session in which a delivered message may be handed to *)
(*                 its reactive handler a second time                      *)
(*   SpecPolicy    a session after which an agent calls _publish with a    *)
(*                 message of any type, the policy engine on or off        *)
(*   SpecRegistry  an AgentRegistry under arbitrary register, unregister   *)
(*                 and clear calls                                         *)
(*   SpecPublish   MessageBus.publish with any handlers subscribed, plain  *)
(*                 or coroutine, raising or not, publishing or not         *)
(*   SpecCritic    the CriticAgent on a bus that holds one factor: any     *)
(*                 rebuttals published before and after its critique, any  *)
(*                 answer of the model, any call of the tracker            *)
(*   SpecDebateLog FinalDecisionAgent._build_debate_log on any short log   *)
(*                 about one factor                                        *)
(*   SpecTwice     one publish whose tasks interleave at the model's       *)
(*                 answer, the critic's handler subscribed once or twice   *)
(*   SpecLive      the session of Spec under a model that answers every    *)
(*                 prompt, with weak fairness of its steps                 *)
(*   SpecRebut     calls of SupportingAgent.rebut that overlap at the      *)
(*                 await of the model's answer                             *)
(*   SpecAssumptions  an AssumptionTracker next to a ResolutionTracker     *)
(*                 under arbitrary register_assumption and clear calls     *)
(*   SpecAgain     the session of Spec followed by a second call of        *)
(*                 analyze on the same Orchestrator                        *)
(*   SpecState     the factors table of the StateManager under             *)
(*                 store_factor calls of several sessions                  *)
(***************************************************************************)
EXTENDS Integers, Sequences, FiniteSets, TLC

VARIABLES
    messages,          \* MessageBus.messages: the chronological log
    factors,           \* MessageBus.factors
    handled_by,        \* MessageBus._handled_by: message id -> set of agent ids
    resolutions,       \* ResolutionTracker.resolutions: factor id -> record
    support_claims,    \* SupportingAgent.claims: factor id -> Claim
    critic_claims,     \* CriticAgent.claims: factor id -> Claim
    rebuttals_issued,  \* SupportingAgent.rebuttals_issued: factor id -> ids
    checks,            \* IntegrityChecker.checks: check name -> record
    pc,                \* position of Orchestrator.analyze
    idx,               \* index of the debate loop of analyze (1-based)
    support,           \* analyze's local: the SUPPORT_ARGUMENT just returned
    critique,          \* analyze's local: the CRITIQUE just returned
    synthesis,         \* analyze's local: the synthesis dict
    result,            \* the value analyze returned
    input_len,         \* len(input_text.strip()) of the session's document
    llm,               \* how the language model answers each kind of prompt
    stack,             \* subscriber tasks awaited by the running publish calls
    claim,             \* SpecClaim: the Claim object under test
    registry,          \* AgentRegistry: _agents and its two indexes
    enabled,           \* RolePolicyEngine._enabled
    subscriptions,     \* MessageBus._subscriptions: type -> handlers
    notify,            \* the progress callback given to analyze: "returns" or "raises"
    assumption_tracker, \* AssumptionTracker: the list and its two indexes
    db,                \* StateManager: the rows of table factors, by primary key
    activations,       \* SpecPublish: the publish calls and handler tasks
    last               \* the call performed by the last step, with its inputs

vars == <<messages, factors, handled_by, resolutions, support_claims,
          critic_claims, rebuttals_issued, checks, pc, idx, support,
          critique, synthesis, result, input_len, llm, stack, claim,
          registry, enabled, subscriptions, notify, db, assumption_tracker,
          activations, last>>

None == "None"

\* a local of analyze that has not been assigned yet
Unassigned == [type |-> None]

\* the id 0, which a test like "if not factor_id" takes for a missing id
ZeroId == "0"

Falsy(factor_id) == factor_id \in {ZeroId, None}

Max(a, b) == IF a >= b THEN a ELSE b

\* dict helpers: a Python dict is a function with a finite domain
Has(d, k) == k \in DOMAIN d
Put(d, k, v) == [x \in (DOMAIN d) \cup {k} |-> IF x = k THEN v ELSE d[x]]
EmptyDict == [x \in {} |-> None]

-----------------------------------------------------------------------------
(* Bounds of the model *)

MaxAssumptions == 2    \* assumptions a Claim under test carries
MaxEvidence == 1       \* evidence items a Claim under test carries
MaxBusId == 2          \* SpecBus: message ids msg_0 .. msg_MaxBusId
MaxFactorId == 2       \* factor ids are the first MaxFactorId names
MaxWorked == 2         \* SpecIntegrity: items of structured.what_worked

-----------------------------------------------------------------------------
(* coordination/claims.py *)

ClaimStatus == {"pending", "supported", "challenged", "weakened",
                "invalidated", "conceded"}

\* EvidenceStrength: NONE = 0 .. CONCLUSIVE = 4
EvidenceStrength == 0 .. 4
STRONG == 3

\* confidence steps, in tenths
WeakenStep == 2
ChallengeStep == 3
DefaultConfidence == 5

\* Assumption.is_valid is tri-state: None, True, False
Untested == "untested"
Valid == "valid"
Invalid == "invalid"

NewClaim(claim_id, factor_id, agent_id) ==
    [claim_id |-> claim_id, factor_id |-> factor_id, agent_id |-> agent_id,
     assumptions |-> <<>>, evidence |-> <<>>,
     status |-> "pending", confidence |-> DefaultConfidence,
     challenges |-> <<>>, rebuttals |-> <<>>]

AllInvalid(c) ==
    /\ c.assumptions # <<>>
    /\ \A i \in 1 .. Len(c.assumptions) : c.assumptions[i] = Invalid

AnyInvalid(c) == \E i \in 1 .. Len(c.assumptions) : c.assumptions[i] = Invalid

AnyStrongEvidence(c) ==
    /\ c.evidence # <<>>
    /\ \E i \in 1 .. Len(c.evidence) : c.evidence[i] >= STRONG

Claim_update_status(c) ==
    IF AllInvalid(c)
    THEN [c EXCEPT !.status = "invalidated", !.confidence = 0]
    ELSE IF AnyInvalid(c)
    THEN [c EXCEPT !.status = "weakened",
                   !.confidence = Max(0, c.confidence - ChallengeStep)]
    ELSE IF AnyStrongEvidence(c)
    THEN IF c.status = "pending" THEN [c EXCEPT !.status = "supported"] ELSE c
    ELSE c

Claim_add_assumption(c) ==
    [c EXCEPT !.assumptions = Append(c.assumptions, Untested)]

Claim_add_evidence(c, strength) ==
    [c EXCEPT !.evidence = Append(c.evidence, strength)]

\* assumption_idx is 0-based as in the source; the returned flag is the
\* method's return value
Claim_challenge_assumption(c, assumption_idx) ==
    IF 0 <= assumption_idx /\ assumption_idx < Len(c.assumptions)
    THEN [claim |-> Claim_update_status(
                        [c EXCEPT !.assumptions[assumption_idx + 1] = Invalid]),
          ret |-> TRUE]
    ELSE [claim |-> c, ret |-> FALSE]

Claim_weaken_nofloor(c) ==
    [c EXCEPT !.confidence = c.confidence - WeakenStep,
              !.status = IF c.status = "supported" THEN "weakened" ELSE c.status]

Claim_weaken(c) ==
    [c EXCEPT !.confidence = Max(0, c.confidence - WeakenStep),
              !.status = IF c.status = "supported" THEN "weakened" ELSE c.status]

Claim_invalidate(c) ==
    [c EXCEPT !.status = "invalidated", !.confidence = 0]

Claim_concede(c) == [c EXCEPT !.status = "conceded"]

\* the fields of Claim.to_dict() that the agents and the claims below read
Claim_to_dict(c) ==
    [claim_id |-> c.claim_id, factor_id |-> c.factor_id,
     agent_id |-> c.agent_id, status |-> c.status,
     confidence |-> c.confidence]

-----------------------------------------------------------------------------
(* coordination/message_bus.py: the idempotency map *)

mark_handled_all_agents(h, message_id, agent_id) ==
    Put(h, message_id, {"supporting_001", "critic_001"})

mark_handled(h, message_id, agent_id) ==
    Put(h, message_id,
        (IF Has(h, message_id) THEN h[message_id] ELSE {}) \cup {agent_id})

is_handled_by(h, message_id, agent_id) ==
    agent_id \in (IF Has(h, message_id) THEN h[message_id] ELSE {})

get_factor(fs, factor_id) ==
    IF \E i \in 1 .. Len(fs) : fs[i].id = factor_id
    THEN fs[CHOOSE i \in 1 .. Len(fs) :
                /\ fs[i].id = factor_id
                /\ \A j \in 1 .. (i - 1) : fs[j].id # factor_id]
    ELSE None

-----------------------------------------------------------------------------
(* validation/resolution_tracker.py *)

ResolutionStatus == {"PENDING", "ACCEPTED", "PARTIALLY_ACCEPTED", "REJECTED"}

set_resolution_accepted_only(res, factor_id, status, justification, sub_claims, critic_agent_id) ==
    [raised |-> FALSE,
     resolutions |->
         IF status = "ACCEPTED"
         THEN Put(res, factor_id,
                  [factor_id |-> factor_id, status |-> status,
                   justification |-> justification,
                   sub_claims |-> sub_claims,
                   critic_agent_id |-> critic_agent_id])
         ELSE res]

\* no test of sub_claims
set_resolution_unchecked(res, factor_id, status, justification, sub_claims, critic_agent_id) ==
    [raised |-> FALSE,
     resolutions |->
         Put(res, factor_id,
             [factor_id |-> factor_id, status |-> status,
              justification |-> justification,
              sub_claims |-> sub_claims,
              critic_agent_id |-> critic_agent_id])]

\* the returned record says whether ValueError was raised; the tracker is
\* left alone when it was
set_resolution(res, factor_id, status, justification, sub_claims, critic_agent_id) ==
    IF status = "PARTIALLY_ACCEPTED" /\ sub_claims = <<>>
    THEN [raised |-> TRUE, resolutions |-> res]
    ELSE [raised |-> FALSE,
          resolutions |->
              Put(res, factor_id,
                  [factor_id |-> factor_id, status |-> status,
                   justification |-> justification,
                   sub_claims |-> sub_claims,
                   critic_agent_id |-> critic_agent_id])]

get_resolution(res, factor_id) ==
    IF Has(res, factor_id) THEN res[factor_id] ELSE None

RECURSIVE SelectSeq2(_, _)
\* [x for x in s if x \notin S], order kept
SelectSeq2(s, S) ==
    IF s = <<>> THEN <<>>
    ELSE IF Head(s) \in S THEN SelectSeq2(Tail(s), S)
    ELSE <<Head(s)>> \o SelectSeq2(Tail(s), S)

get_unresolved_factors(res, all_factor_ids) ==
    SelectSeq2(all_factor_ids, DOMAIN res)

get_factors_with_status(res, status) ==
    {fid \in DOMAIN res : res[fid].status = status}

get_accepted_factors(res) == get_factors_with_status(res, "ACCEPTED")

get_partially_accepted_factors(res) ==
    get_factors_with_status(res, "PARTIALLY_ACCEPTED")

get_rejected_factors(res) == get_factors_with_status(res, "REJECTED")

did_critic_win_any_debate(res) == Cardinality(get_rejected_factors(res)) > 0

-----------------------------------------------------------------------------
(* validation/integrity_checker.py *)

\* An item of structured.what_worked is [is_dict, factor_id]: is_dict is
\* isinstance(item, dict), factor_id is item.get('factor_id') (None if absent)
what_worked_ids(syn) ==
    LET ww == syn.structured.what_worked IN
    {ww[i].factor_id : i \in {j \in 1 .. Len(ww) : ww[j].is_dict}}

\* a factor_id that json.loads made a list or an object of
Unhashable == "unhashable"

\* line 70: the set comprehension raises TypeError on an unhashable
\* factor_id; lines 57-62 return before it when nothing is rejected
check_rejected_factors_excluded_raises(syn, res) ==
    /\ get_rejected_factors(res) # {}
    /\ Unhashable \in what_worked_ids(syn)

check_irrelevant_factors(chk, validation_results) ==
    Put(chk, "irrelevant_factors",
        [passed |-> validation_results.ungrounded_factors = 0,
         count |-> validation_results.ungrounded_factors])

rejected_in_any_section(syn, res) ==
    LET rejected_factor_ids == get_rejected_factors(res)
        wf == syn.structured.what_failed
        ids == what_worked_ids(syn)
               \cup {wf[i].factor_id : i \in {j \in 1 .. Len(wf) : wf[j].is_dict}}
    IN  rejected_factor_ids \cap ids

rejected_in_what_worked(syn, res) ==
    get_rejected_factors(res) \cap what_worked_ids(syn)

check_rejected_factors_excluded(chk, syn, res) ==
    LET rejected_factor_ids == get_rejected_factors(res)
        rejected_in_synthesis == rejected_in_what_worked(syn, res)
    IN  IF rejected_factor_ids = {}
        THEN Put(chk, "rejected_factors_excluded", [passed |-> TRUE])
        ELSE IF rejected_in_synthesis # {}
        THEN Put(chk, "rejected_factors_excluded",
                 [passed |-> FALSE, rejected_ids |-> rejected_in_synthesis])
        ELSE Put(chk, "rejected_factors_excluded",
                 [passed |-> TRUE,
                  rejected_count |-> Cardinality(rejected_factor_ids)])

check_circular_reasoning(chk, validation_results) ==
    Put(chk, "circular_reasoning",
        [passed |-> validation_results.circular_factors = 0,
         count |-> validation_results.circular_factors])

check_critic_won_debate(chk, res) ==
    Put(chk, "critic_won_debate",
        [passed |-> did_critic_win_any_debate(res),
         rejected_count |-> Cardinality(get_rejected_factors(res))])

FactorIdsOf(fs) == [i \in 1 .. Len(fs) |-> fs[i].id]

check_all_factors_resolved(chk, fs, res) ==
    LET unresolved == get_unresolved_factors(res, FactorIdsOf(fs)) IN
    Put(chk, "all_factors_resolved",
        [passed |-> Len(unresolved) = 0,
         unresolved_count |-> Len(unresolved),
         unresolved_ids |-> unresolved])

is_valid_all_checks(c1, c2, c3, c4, c5) == c1 /\ c2 /\ c3 /\ c5

is_valid(c1, c2, c3, c4, c5) == c2 /\ c5

check_synthesis_validity(chk, fs, validation_results, res, syn) ==
    LET k1 == check_irrelevant_factors(chk, validation_results)
        k2 == check_rejected_factors_excluded(k1, syn, res)
        k3 == check_circular_reasoning(k2, validation_results)
        k4 == check_critic_won_debate(k3, res)
        k5 == check_all_factors_resolved(k4, fs, res)
    IN  Put(k5, "synthesis_valid",
            [passed |-> is_valid(k5["irrelevant_factors"].passed,
                                 k5["rejected_factors_excluded"].passed,
                                 k5["circular_reasoning"].passed,
                                 k5["critic_won_debate"].passed,
                                 k5["all_factors_resolved"].passed)])

get_integrity_summary(chk) ==
    [checks |-> chk,
     all_passed |-> \A k \in DOMAIN chk : chk[k].passed,
     synthesis_valid |-> IF Has(chk, "synthesis_valid")
                         THEN chk["synthesis_valid"].passed ELSE FALSE]

-----------------------------------------------------------------------------
(* coordination/agent_registry.py *)

AgentRole ==
    {"factor_extraction", "supporting", "critic", "synthesizer",
     "final_decision"}

MessageType ==
    {"FACTOR_LIST", "FACTOR_DISCOVERED", "SUPPORT_ARGUMENT", "CRITIQUE",
     "REBUTTAL", "SYNTHESIS_NOTE", "FINAL_DIRECTIVE"}

(* infrastructure/state_manager.py: the table factors *)

\* store_factor: INSERT INTO factors (id, session_id, ...); the column id is
\* the INTEGER PRIMARY KEY of the table, so a second row with the same id
\* is refused (sqlite3.IntegrityError), whatever its session
store_factor(rows, session_id, factor_id, name) ==
    IF Has(rows, factor_id)
    THEN [raised |-> TRUE, rows |-> rows]
    ELSE [raised |-> FALSE,
          rows |-> Put(rows, factor_id,
                       [id |-> factor_id, session_id |-> session_id,
                        name |-> name])]

\* the ids of rows, ascending
RECURSIVE Ascending(_)
Ascending(ids) ==
    IF ids = {} THEN <<>>
    ELSE LET least == CHOOSE x \in ids : \A y \in ids : x <= y
         IN  <<least>> \o Ascending(ids \ {least})

\* SELECT * FROM factors WHERE session_id = ? ORDER BY id
StateManager_get_factors(rows, session_id) ==
    LET ids == Ascending({k \in DOMAIN rows :
                             rows[k].session_id = session_id})
    IN  [n \in 1 .. Len(ids) |-> rows[ids[n]]]

\* SELECT * FROM factors WHERE session_id = ? AND id = ?; empty for None
StateManager_get_factor(rows, session_id, factor_id) ==
    IF Has(rows, factor_id) /\ rows[factor_id].session_id = session_id
    THEN <<rows[factor_id]>> ELSE <<>>

-----------------------------------------------------------------------------
(* validation/assumption_tracker.py *)

\* AssumptionTracker.__init__ and clear
EmptyTracker ==
    [assumptions |-> <<>>, assumptions_by_factor |-> EmptyDict,
     assumptions_by_agent |-> EmptyDict]

\* lines 40-45: the factor is looked up only when a tracker was passed that
\* is true and the factor id is true (not None, not 0)
rejected_for_tracker(res, with_tracker, factor_id) ==
    /\ with_tracker
    /\ ~Falsy(factor_id)
    /\ Has(res, factor_id)
    /\ res[factor_id].status = "REJECTED"

\* AssumptionTracker.register_assumption; ret holds the record returned and
\* is empty for None; with_tracker tells whether a resolution tracker was
\* passed
register_assumption(trk, agent_id, factor_id, assumption, res, with_tracker) ==
    IF rejected_for_tracker(res, with_tracker, factor_id)
    THEN [ret |-> <<>>, tracker |-> trk]
    ELSE LET record == [id |-> Len(trk.assumptions) + 1,
                        agent_id |-> agent_id, factor_id |-> factor_id,
                        assumption |-> assumption]
             by_factor == trk.assumptions_by_factor
             by_agent == trk.assumptions_by_agent
         IN  [ret |-> <<record>>,
              tracker |->
                 [assumptions |-> Append(trk.assumptions, record),
                  assumptions_by_factor |->
                      IF factor_id = None THEN by_factor
                      ELSE Put(by_factor, factor_id,
                               Append(IF Has(by_factor, factor_id)
                                      THEN by_factor[factor_id] ELSE <<>>,
                                      record)),
                  assumptions_by_agent |->
                      Put(by_agent, agent_id,
                          Append(IF Has(by_agent, agent_id)
                                 THEN by_agent[agent_id] ELSE <<>>,
                                 record))]]

-----------------------------------------------------------------------------
(* coordination/agent_registry.py *)

\* AgentRegistry.__init__
EmptyRegistry ==
    [agents |-> EmptyDict,
     agents_by_role |-> [r \in AgentRole |-> <<>>],
     agents_by_output_type |-> EmptyDict]

\* a RegisteredAgent with its AgentCapability
RegisteredAgent(agent_id, name, role, output_types) ==
    [agent_id |-> agent_id, name |-> name,
     capability |-> [role |-> role, output_types |-> output_types]]

\* list.remove: the first occurrence goes
Remove(s, x) ==
    LET i == CHOOSE k \in 1 .. Len(s) :
                 s[k] = x /\ \A j \in 1 .. (k - 1) : s[j] # x
    IN  [k \in 1 .. (Len(s) - 1) |-> IF k < i THEN s[k] ELSE s[k + 1]]

Contains(s, x) == \E k \in 1 .. Len(s) : s[k] = x

\* register overwrites the record and appends to the indexes, whatever the
\* registry holds
register_unguarded(reg, agent_id, name, role, output_types) ==
    LET old == reg.agents_by_output_type IN
    [raised |-> FALSE,
     registry |->
        [agents |-> Put(reg.agents, agent_id,
                        RegisteredAgent(agent_id, name, role, output_types)),
         agents_by_role |->
             [reg.agents_by_role EXCEPT ![role] = Append(@, agent_id)],
         agents_by_output_type |->
             [t \in (DOMAIN old) \cup output_types |->
                 IF t \in output_types
                 THEN Append(IF Has(old, t) THEN old[t] ELSE <<>>, agent_id)
                 ELSE old[t]]]]

\* AgentRegistry.register; raised is the ValueError of line 73
register(reg, agent_id, name, role, output_types) ==
    IF Has(reg.agents, agent_id)
    THEN [raised |-> TRUE, registry |-> reg]
    ELSE register_unguarded(reg, agent_id, name, role, output_types)

\* unregister takes the agent out of the id map and the role index only
unregister_keeps_output_types(reg, agent_id) ==
    IF ~Has(reg.agents, agent_id)
    THEN [ret |-> FALSE, registry |-> reg]
    ELSE LET role == reg.agents[agent_id].capability.role
         IN  [ret |-> TRUE,
              registry |->
                 [agents |-> [x \in (DOMAIN reg.agents) \ {agent_id} |->
                                 reg.agents[x]],
                  agents_by_role |->
                      [reg.agents_by_role EXCEPT ![role] =
                          IF Contains(@, agent_id) THEN Remove(@, agent_id)
                          ELSE @],
                  agents_by_output_type |-> reg.agents_by_output_type]]

\* AgentRegistry.unregister; ret is its return value
unregister(reg, agent_id) ==
    IF ~Has(reg.agents, agent_id)
    THEN [ret |-> FALSE, registry |-> reg]
    ELSE LET agent == reg.agents[agent_id]
             role == agent.capability.role
             old == reg.agents_by_output_type
         IN  [ret |-> TRUE,
              registry |->
                 [agents |-> [x \in (DOMAIN reg.agents) \ {agent_id} |->
                                 reg.agents[x]],
                  agents_by_role |->
                      [reg.agents_by_role EXCEPT ![role] =
                          IF Contains(@, agent_id) THEN Remove(@, agent_id)
                          ELSE @],
                  agents_by_output_type |->
                      [t \in DOMAIN old |->
                          IF /\ t \in agent.capability.output_types
                             /\ Contains(old[t], agent_id)
                          THEN Remove(old[t], agent_id)
                          ELSE old[t]]]]

get_agent(reg, agent_id) ==
    IF Has(reg.agents, agent_id) THEN reg.agents[agent_id] ELSE None

\* the records of the listed ids that are in the id map, in list order
RECURSIVE records_of(_, _)
records_of(reg, agent_ids) ==
    IF agent_ids = <<>> THEN <<>>
    ELSE (IF Has(reg.agents, Head(agent_ids))
          THEN <<reg.agents[Head(agent_ids)]>> ELSE <<>>)
         \o records_of(reg, Tail(agent_ids))

get_agents_by_role(reg, role) ==
    records_of(reg, IF role \in DOMAIN reg.agents_by_role
                    THEN reg.agents_by_role[role] ELSE <<>>)

get_agents_by_output_type(reg, message_type) ==
    records_of(reg, IF Has(reg.agents_by_output_type, message_type)
                    THEN reg.agents_by_output_type[message_type] ELSE <<>>)

-----------------------------------------------------------------------------
(* coordination/role_policy.py *)

ROLE_OUTPUT_TYPES ==
    [r \in AgentRole |->
        CASE r = "factor_extraction" -> {"FACTOR_LIST"}
          [] r = "supporting" -> {"SUPPORT_ARGUMENT", "REBUTTAL"}
          [] r = "critic" -> {"CRITIQUE"}
          [] r = "synthesizer" -> {"SYNTHESIS_NOTE"}
          [] r = "final_decision" -> {"FINAL_DIRECTIVE"}]

\* the engine lets every type pass
validate_message_type_lenient(on, role, message_type) == TRUE

\* RolePolicyEngine.validate_message_type: TRUE when it returns True, FALSE
\* when it raises PolicyViolation
validate_message_type(on, role, message_type) ==
    \/ ~on
    \/ /\ role \in AgentRole
       /\ message_type \in ROLE_OUTPUT_TYPES[role]

-----------------------------------------------------------------------------
(* The state after construction (Orchestrator.__init__ and the agents') *)

SUPPORTING == "supporting_001"
CRITIC == "critic_001"
SYNTHESIZER == "synthesizer_001"
FINAL == "final_decision_001"
EXTRACTION == "factor_extraction_001"

\* the agents in the order Orchestrator.__init__ constructs them, each with
\* the registry and the policy engine
TheAgents ==
    <<[agent_id |-> EXTRACTION, name |-> "FactorExtractionAgent",
       role |-> "factor_extraction",
       output_types |-> {"FACTOR_LIST", "FACTOR_DISCOVERED"}],
      [agent_id |-> SUPPORTING, name |-> "SupportingAgent",
       role |-> "supporting",
       output_types |-> {"SUPPORT_ARGUMENT", "REBUTTAL"}],
      [agent_id |-> CRITIC, name |-> "CriticAgent", role |-> "critic",
       output_types |-> {"CRITIQUE"}],
      [agent_id |-> SYNTHESIZER, name |-> "SynthesizerAgent",
       role |-> "synthesizer", output_types |-> {"SYNTHESIS_NOTE"}],
      [agent_id |-> FINAL, name |-> "FinalDecisionAgent",
       role |-> "final_decision", output_types |-> {"FINAL_DIRECTIVE"}]>>

AgentIds == {TheAgents[i].agent_id : i \in 1 .. Len(TheAgents)}

AgentOf(agent_id) ==
    TheAgents[CHOOSE i \in 1 .. Len(TheAgents) :
                  TheAgents[i].agent_id = agent_id]

\* BaseAgent._register of the first n agents
RECURSIVE Registered(_)
Registered(n) ==
    IF n = 0 THEN EmptyRegistry
    ELSE register(Registered(n - 1), TheAgents[n].agent_id,
                  TheAgents[n].name, TheAgents[n].role,
                  TheAgents[n].output_types).registry

OrchestratorRegistry == Registered(Len(TheAgents))

\* the _setup_subscriptions of the five agents
AgentSubscriptions ==
    [t \in {"FACTOR_DISCOVERED", "CRITIQUE", "SUPPORT_ARGUMENT", "REBUTTAL",
            "SYNTHESIS_NOTE"} |->
        CASE t = "FACTOR_DISCOVERED" -> <<"_on_factor_discovered">>
          [] t = "CRITIQUE" -> <<"_on_critique">>
          [] t = "SUPPORT_ARGUMENT" -> <<"_on_support_argument">>
          [] t = "REBUTTAL" -> <<"_on_rebuttal">>
          [] t = "SYNTHESIS_NOTE" -> <<"_on_synthesis_complete">>]

\* lines 87-90 of MessageBus.publish: the handlers subscribed to a type
Subscribers(type) ==
    IF Has(subscriptions, type) THEN subscriptions[type] ELSE <<>>

\* BaseAgent._validate_message_type of an agent that has the policy engine
\* and its registered_agent
BaseAgent_validate_message_type(agent_id, message_type) ==
    validate_message_type(enabled, AgentOf(agent_id).role, message_type)

Wired ==
    /\ registry = OrchestratorRegistry
    /\ enabled = TRUE
    /\ subscriptions = AgentSubscriptions
    /\ activations = <<>>

NoClaim == NewClaim(None, None, None)

BusEmpty ==
    /\ messages = <<>>
    /\ factors = <<>>
    /\ handled_by = EmptyDict

AgentsFresh ==
    /\ support_claims = EmptyDict
    /\ critic_claims = EmptyDict
    /\ rebuttals_issued = EmptyDict

OrchestratorIdle ==
    /\ pc = "idle"
    /\ idx = 0
    /\ support = Unassigned
    /\ critique = Unassigned
    /\ synthesis = Unassigned
    /\ result = Unassigned
    /\ stack = <<>>

-----------------------------------------------------------------------------
(* Records of the session *)

\* A factor as FactorExtractionAgent.process leaves it: words are the causal
\* keywords its name or description contains, validation the annotations
Factor(id, words, is_circular, is_grounded) ==
    [id |-> id, words |-> words,
     validation |-> [is_circular |-> is_circular,
                     is_grounded |-> is_grounded,
                     is_valid |-> is_grounded /\ ~is_circular]]

\* A message dict; a key the publisher did not set reads as the default its
\* readers give to get(): None, or True or False for the three flags
Msg(type) ==
    [id |-> -1, type |-> type, publisher |-> None, agent_id |-> None,
     factor_id |-> None, factor |-> None, factors |-> None,
     validation_results |-> None, has_evidence |-> TRUE, claim |-> None,
     resolution |-> None, verdict |-> None, justification |-> None,
     sub_claims |-> None, is_update |-> FALSE, rebuttal |-> None,
     rebuttal_id |-> None, updated_claim |-> None, is_concession |-> FALSE,
     structured |-> None, debate_summary |-> <<>>, rejected_debates |-> <<>>]

HasType(log, type) == \E i \in 1 .. Len(log) : log[i].type = type

FirstOfType(log, type) ==
    log[CHOOSE i \in 1 .. Len(log) :
            /\ log[i].type = type
            /\ \A j \in 1 .. (i - 1) : log[j].type # type]

-----------------------------------------------------------------------------
(* workflow/orchestrator.py: step 5 of analyze and its return value *)

OrchestratorFrame ==
    UNCHANGED <<support_claims, critic_claims, rebuttals_issued, claim>>

\* lines 219-231: the except branch of analyze
Except(op) ==
    /\ pc' = "failed"
    /\ result' = [success |-> FALSE, error |-> op, factors |-> factors,
                  all_messages |-> messages]
    /\ last' = [op |-> "except", at |-> op, reactive |-> FALSE]

AnalyzeIntegrity ==
    /\ pc = "integrity"
    /\ stack = <<>>
    /\ LET validation_results ==
               IF HasType(messages, "FACTOR_LIST")
               THEN FirstOfType(messages, "FACTOR_LIST").validation_results
               ELSE None
           chk == IF HasType(messages, "FACTOR_LIST")
                  THEN check_synthesis_validity(checks, factors,
                           validation_results, resolutions, synthesis)
                  ELSE checks
       IN  IF /\ HasType(messages, "FACTOR_LIST")
              /\ check_rejected_factors_excluded_raises(synthesis, resolutions)
           THEN /\ checks' = check_irrelevant_factors(checks,
                                                      validation_results)
                /\ Except("check_synthesis_validity")
           ELSE /\ checks' = chk
                /\ result' =
                     [success |-> TRUE,
                      factors |-> factors,
                      validation_results |-> validation_results,
                      resolutions |->
                          [accepted |-> get_accepted_factors(resolutions),
                           partially_accepted |->
                               get_partially_accepted_factors(resolutions),
                           rejected |-> get_rejected_factors(resolutions)],
                      integrity_check |-> get_integrity_summary(chk),
                      all_messages |-> messages]
                /\ pc' = "done"
                /\ last' = [op |-> "analyze_integrity", reactive |-> FALSE]
    /\ UNCHANGED <<messages, factors, handled_by, resolutions, idx, support,
                   critique, synthesis, input_len, llm, registry, enabled,
                   subscriptions, notify, db, assumption_tracker,
                   activations, stack>>
    /\ OrchestratorFrame

-----------------------------------------------------------------------------
(* SpecIntegrity: the IntegrityChecker on arbitrary tracker and synthesis  *)
(* contents, called directly and through step 5 of analyze                 *)

\* ids the model lets the extraction output use
FactorIdNames == <<"f1", "f2", "f3", "f4">>

FactorIds == {FactorIdNames[i] : i \in 1 .. MaxFactorId}

PlainFactor(id) == Factor(id, {}, FALSE, TRUE)

IntegrityFactorLists ==
    {[i \in 1 .. n |-> PlainFactor(FactorIdNames[i])] : n \in 0 .. MaxFactorId}

GenericSubClaims ==
    <<[claim |-> "Core argument has merit", status |-> "ACCEPTED"],
      [claim |-> "Some aspects require clarification",
       status |-> "NEEDS_CLARIFICATION"]>>

TrackerEntry(fid, st) ==
    [factor_id |-> fid, status |-> st, justification |-> "given",
     sub_claims |-> IF st = "PARTIALLY_ACCEPTED" THEN GenericSubClaims ELSE <<>>,
     critic_agent_id |-> CRITIC]

TrackerContents ==
    UNION {{[fid \in S |-> TrackerEntry(fid, st[fid])] :
               st \in [S -> ResolutionStatus]} : S \in SUBSET FactorIds}

WorkedItems ==
    {[is_dict |-> TRUE, factor_id |-> f] : f \in FactorIds \cup {None}}
        \cup {[is_dict |-> FALSE, factor_id |-> None]}

WorkedLists == UNION {[1 .. n -> WorkedItems] : n \in 0 .. MaxWorked}

FailedLists == {<<>>, <<[is_dict |-> TRUE, factor_id |-> "f1"]>>}

ValidationResults ==
    {[ungrounded_factors |-> u, circular_factors |-> c] :
        u \in 0 .. 1, c \in 0 .. 1}

InitIntegrity ==
    /\ assumption_tracker = EmptyTracker
    /\ db = EmptyDict
    /\ Wired /\ notify = "returns"
    /\ AgentsFresh
    /\ handled_by = EmptyDict
    /\ idx = 0 /\ support = Unassigned /\ critique = Unassigned
    /\ result = Unassigned
    /\ stack = <<>>
    /\ pc = "integrity"
    /\ checks = EmptyDict
    /\ input_len = 0
    /\ llm = None
    /\ claim = NoClaim
    /\ factors \in IntegrityFactorLists
    /\ \E vr \in ValidationResults :
           messages = <<[Msg("FACTOR_LIST") EXCEPT
                            !.id = 0, !.publisher = EXTRACTION,
                            !.agent_id = EXTRACTION, !.factors = factors,
                            !.validation_results = vr]>>
    /\ resolutions \in TrackerContents
    /\ \E ww \in WorkedLists, wf \in FailedLists :
           synthesis = [Msg("SYNTHESIS_NOTE") EXCEPT
                            !.structured = [what_worked |-> ww,
                                            what_failed |-> wf]]
    /\ last = [op |-> "init"]

IntegrityFrame ==
    UNCHANGED <<messages, factors, handled_by, resolutions, support_claims,
                critic_claims, rebuttals_issued, pc, idx, support, critique,
                synthesis, result, input_len, llm, registry, enabled,
                subscriptions, notify, db, assumption_tracker,
                   activations, stack, claim>>

IntegrityCheckRejectedExcluded ==
    /\ checks' = check_rejected_factors_excluded(checks, synthesis, resolutions)
    /\ last' = [op |-> "check_rejected_factors_excluded"]
    /\ IntegrityFrame

IntegrityCheckSynthesisValidity ==
    /\ checks' = check_synthesis_validity(checks, factors,
                     messages[1].validation_results, resolutions, synthesis)
    /\ last' = [op |-> "check_synthesis_validity"]
    /\ IntegrityFrame

IntegrityClear ==
    /\ checks' = EmptyDict
    /\ last' = [op |-> "clear"]
    /\ IntegrityFrame

NextIntegrity ==
    \/ IntegrityCheckRejectedExcluded
    \/ IntegrityCheckSynthesisValidity
    \/ IntegrityClear
    \/ AnalyzeIntegrity

SpecIntegrity == InitIntegrity /\ [][NextIntegrity]_vars

-----------------------------------------------------------------------------
(* The language model.  A response is modelled by what the agents' parsers  *)
(* look for in it.                                                          *)

\* SupportingAgent.support_factor looks for INSUFFICIENT_EVIDENCE
SupportResponses == {[insufficient |-> b] : b \in BOOLEAN}

\* an answer with one line in its ASSUMPTIONS: block
SupportWithAssumption == [insufficient |-> FALSE, assumptions |-> 1]

\* the number of lines of the ASSUMPTIONS: block of the answer, 0 without one
AssumptionLines(response) ==
    IF "assumptions" \in DOMAIN response THEN response.assumptions ELSE 0

\* CriticAgent.critique_factor: the token after "RESOLUTION:" (None when the
\* regex does not match), the upper-cased keywords the text contains, whether
\* a JUSTIFICATION: section is present, the number of bullet lines, and the
\* (claim, status) pairs of the "- claim: STATUS" lines of a SUB-CLAIMS: block
CritiqueResponse(token, words, bullets) ==
    [token |-> token, words |-> words, justified |-> token # None,
     bullets |-> bullets, subclaims |-> <<>>]

CritiqueResponses ==
    {CritiqueResponse("ACCEPTED", {"ACCEPT"}, 0),
     CritiqueResponse("ACCEPTED (DESCRIPTIVE ONLY)", {"ACCEPT"}, 0),
     CritiqueResponse("PARTIALLY_ACCEPTED", {"PARTIALLY", "ACCEPT"}, 2),
     CritiqueResponse("REJECTED", {"REJECT"}, 0),
     CritiqueResponse("ACCEPTED", {"ACCEPT", "CAUSAL"}, 0),
     CritiqueResponse(None, {"SOME"}, 0),
     CritiqueResponse(None, {}, 0)}

\* SupportingAgent.rebut and CriticAgent._on_rebuttal: the length of the text
\* and the upper-cased markers it contains
RebuttalText(len, words) == [len |-> len, words |-> words]

RebuttalResponses ==
    {RebuttalText(60, {"CONCEDE"}),
     RebuttalText(40, {"QUOTE:"}),
     RebuttalText(120, {"QUOTE:"}),
     RebuttalText(120, {"QUOTE:", "BECAUSE"}),
     RebuttalText(200, {})}

\* CriticAgent.re_evaluate_after_rebuttal: the word on the UPDATED
\* RESOLUTION: line (None when the line is absent)
ReevalResponses == {None, "MAINTAIN_ORIGINAL", "ACCEPTED", "REJECTED"}

\* kinds of prompt; the client raises on the kind llm.raises
PromptKinds ==
    {"extract", "support", "critique", "rebut", "reeval", "synthesize",
     "final"}

-----------------------------------------------------------------------------
(* agents/supporting_agent.py: pure parts *)

SupportConfidenceWeak == 2
SupportConfidence == 7

\* the Claim support_factor stores for the factor
support_claim(factor_id, response) ==
    [NewClaim(<<"support", factor_id>>, factor_id, SUPPORTING) EXCEPT
        !.confidence = IF response.insufficient THEN SupportConfidenceWeak
                       ELSE SupportConfidence,
        !.status = IF response.insufficient THEN "weakened" ELSE "supported"]

is_concession(text) == "CONCEDE" \in text.words \/ "QUOTE:" \notin text.words

\* every rebuttal of a factor is numbered 0
next_rebuttal_id_zero(issued, factor_id) == <<"rebuttal", factor_id, 0>>

\* f"rebuttal_{factor_id}_{len(self.rebuttals_issued.get(factor_id, []))}"
next_rebuttal_id(issued, factor_id) ==
    <<"rebuttal", factor_id,
      IF Has(issued, factor_id) THEN Len(issued[factor_id]) ELSE 0>>

-----------------------------------------------------------------------------
(* agents/critic_agent.py: pure parts *)

SmallContextLimit == 500
StrongRebuttalMinLen == 50
DetailedRebuttalLen == 150
RejectedConfidence == 9
PartialConfidence == 5
AcceptedConfidence == 7

CausalKeywords ==
    {"caused", "led to", "resulted in", "because", "due to", "therefore",
     "thus", "consequently"}

MechanismTerms ==
    {"MECHANISM", "BECAUSE", "THEREFORE", "THUS", "CONSEQUENTLY", "LEADS TO",
     "RESULTS IN", "CAUSES"}

is_causal_claim(factor) == factor.words \cap CausalKeywords # {}

is_small_context(context_size) == context_size < SmallContextLimit

\* only the last REBUTTAL of the factor is looked at
has_concession_in_last(log, factor_id) ==
    \E i \in 1 .. Len(log) :
        /\ log[i].type = "REBUTTAL"
        /\ log[i].factor_id = factor_id
        /\ log[i].is_concession
        /\ \A j \in (i + 1) .. Len(log) :
               ~(log[j].type = "REBUTTAL" /\ log[j].factor_id = factor_id)

\* lines 139-147
has_concession(log, factor_id) ==
    \E i \in 1 .. Len(log) :
        /\ log[i].type = "REBUTTAL"
        /\ log[i].factor_id = factor_id
        /\ log[i].is_concession

HasRebuttal(log, factor_id) ==
    \E i \in 1 .. Len(log) :
        log[i].type = "REBUTTAL" /\ log[i].factor_id = factor_id

FirstRebuttal(log, factor_id) ==
    log[CHOOSE i \in 1 .. Len(log) :
            /\ log[i].type = "REBUTTAL" /\ log[i].factor_id = factor_id
            /\ \A j \in 1 .. (i - 1) :
                   ~(log[j].type = "REBUTTAL" /\ log[j].factor_id = factor_id)]

\* strong by its length alone
is_strong_rebuttal_by_length(message) ==
    message.rebuttal.len > StrongRebuttalMinLen /\ ~message.is_concession

\* lines 100-108
is_strong_rebuttal(message) ==
    /\ message.rebuttal.len > StrongRebuttalMinLen
    /\ ~message.is_concession
    /\ \/ message.rebuttal.words \cap {"EVIDENCE", "DOCUMENT", "QUOTE", "QUOTE:"} # {}
       \/ message.rebuttal.len > DetailedRebuttalLen

\* the keyword fallback looks for ACCEPT before PARTIALLY and SOME
parsed_resolution_accept_first(response) ==
    IF response.token # None
    THEN IF response.token = "ACCEPTED (DESCRIPTIVE ONLY)" THEN "ACCEPTED"
         ELSE response.token
    ELSE IF response.words \cap {"ANALYTICALLY REJECTED", "INVALID", "REJECT"} # {}
    THEN "REJECTED"
    ELSE IF "ACCEPT" \in response.words THEN "ACCEPTED"
    ELSE IF response.words \cap {"PARTIALLY", "SOME"} # {}
    THEN "PARTIALLY_ACCEPTED"
    ELSE "REJECTED"

\* lines 255-274: the RESOLUTION token, else the keyword fallback
parsed_resolution(response) ==
    IF response.token # None
    THEN IF response.token = "ACCEPTED (DESCRIPTIVE ONLY)" THEN "ACCEPTED"
         ELSE response.token
    ELSE IF response.words \cap {"ANALYTICALLY REJECTED", "INVALID", "REJECT"} # {}
    THEN "REJECTED"
    ELSE IF response.words \cap {"PARTIALLY", "SOME"} # {}
    THEN "PARTIALLY_ACCEPTED"
    ELSE IF "ACCEPT" \in response.words THEN "ACCEPTED"
    ELSE "REJECTED"

\* lines 279-297: the critic named causality and the first rebuttal of the
\* factor only re-quoted
causality_override(response, log, factor_id) ==
    /\ response.words \cap {"CAUSAL", "CAUSALITY"} # {}
    /\ HasRebuttal(log, factor_id)
    /\ LET text == FirstRebuttal(log, factor_id).rebuttal
       IN  text.words \cap MechanismTerms = {} /\ "QUOTE:" \in text.words

\* line 235; has_evidence is read at line 132 and reaches only the prompt
AutoAccept_needs_evidence(has_evidence, causal, small, conceded, is_circular, is_grounded) ==
    has_evidence /\ ~causal /\ small /\ ~(conceded \/ is_circular \/ ~is_grounded)

AutoAccept_never(has_evidence, causal, small, conceded, is_circular, is_grounded) ==
    FALSE

AutoAccept(has_evidence, causal, small, conceded, is_circular, is_grounded) ==
    ~causal /\ small /\ ~(conceded \/ is_circular \/ ~is_grounded)

\* line 240
AutoReject_not_circular(has_evidence, conceded, is_circular, is_grounded) ==
    conceded \/ ~is_grounded

AutoReject(has_evidence, conceded, is_circular, is_grounded) ==
    conceded \/ is_circular \/ ~is_grounded

BulletSubClaims ==
    <<[claim |-> "first bullet", status |-> "ACCEPTED"],
      [claim |-> "second bullet", status |-> "NEEDS_CLARIFICATION"]>>

JustAutoAccept ==
    "Descriptive fact from document - accepted without substantive debate"
JustConceded ==
    "Supporting agent conceded - unable to provide documentary evidence"
JustCircular == "Circular reasoning detected"
JustUngrounded == "Factor not grounded in document"
JustCausality ==
    "Critic raised causality challenge - rebuttal only re-quoted document without providing causal mechanism"

\* lines 234-353: resolution, justification and sub_claims
critique_decision(factor, support_argument, context_size, log, response) ==
    LET has_evidence == support_argument.has_evidence
        is_circular == factor.validation.is_circular
        is_grounded == factor.validation.is_grounded
        conceded == has_concession(log, factor.id)
        causal == is_causal_claim(factor)
        small == is_small_context(context_size)
        override == causality_override(response, log, factor.id)
        parsed == IF override THEN "REJECTED" ELSE parsed_resolution(response)
    IN  IF AutoAccept(has_evidence, causal, small, conceded, is_circular, is_grounded)
        THEN [resolution |-> "ACCEPTED", justification |-> JustAutoAccept,
              sub_claims |-> <<>>]
        ELSE IF AutoReject(has_evidence, conceded, is_circular, is_grounded)
        THEN [resolution |-> "REJECTED",
              justification |-> IF conceded THEN JustConceded
                                ELSE IF is_circular THEN JustCircular
                                ELSE JustUngrounded,
              sub_claims |-> <<>>]
        ELSE [resolution |-> parsed,
              justification |->
                  IF override THEN JustCausality
                  ELSE IF response.token = "ACCEPTED (DESCRIPTIVE ONLY)"
                  THEN "DESCRIPTIVE ONLY"
                  ELSE IF response.justified THEN "from response"
                  ELSE "See critique above",
              \* line 320 empties the list lines 308-317 built from
              \* response.subclaims; lines 321-353 fill it again
              sub_claims |->
                  IF parsed = "PARTIALLY_ACCEPTED"
                  THEN IF response.bullets >= 2 THEN BulletSubClaims
                       ELSE GenericSubClaims
                  ELSE <<>>]

critic_claim_invalidate(factor_id, resolution, support_argument) ==
    [NewClaim(<<"critique", factor_id>>, factor_id, CRITIC) EXCEPT
        !.status = IF resolution = "REJECTED" THEN "invalidated"
                   ELSE IF resolution = "PARTIALLY_ACCEPTED" THEN "weakened"
                   ELSE "challenged",
        !.confidence = IF resolution = "REJECTED" THEN 0
                       ELSE IF resolution = "PARTIALLY_ACCEPTED"
                       THEN PartialConfidence
                       ELSE AcceptedConfidence,
        !.challenges = <<support_argument.claim.claim_id>>]

\* lines 378-404: the Claim critique_factor stores for the factor
critic_claim(factor_id, resolution, support_argument) ==
    [NewClaim(<<"critique", factor_id>>, factor_id, CRITIC) EXCEPT
        !.status = IF resolution = "REJECTED" THEN "invalidated"
                   ELSE IF resolution = "PARTIALLY_ACCEPTED" THEN "weakened"
                   ELSE "challenged",
        !.confidence = IF resolution = "REJECTED" THEN RejectedConfidence
                       ELSE IF resolution = "PARTIALLY_ACCEPTED"
                       THEN PartialConfidence
                       ELSE AcceptedConfidence,
        !.challenges = <<support_argument.claim.claim_id>>]

\* lines 480-492
updated_resolution(response) ==
    IF response \in {"ACCEPTED", "PARTIALLY_ACCEPTED", "REJECTED"}
    THEN response ELSE "MAINTAIN_ORIGINAL"

-----------------------------------------------------------------------------
(* Publishing.  MessageBus.publish appends the message and awaits one task  *)
(* per subscriber; the tasks it awaits are kept on the stack, top first.    *)

Task(handler, m) ==
    [kind |-> "task", handler |-> handler, m |-> m, again |-> FALSE]
\* a handler invoked once more with a message it was given before
TaskAgain(handler, m) ==
    [kind |-> "task", handler |-> handler, m |-> m, again |-> TRUE]
\* the rest of a handler after the publish it awaits: its mark_handled call
Mark(agent_id, m) ==
    [kind |-> "mark", handler |-> agent_id, m |-> m, again |-> FALSE]
\* the FACTOR_DISCOVERED loop of publish, about to publish the m-th factor;
\* handler keeps the agent_id the FACTOR_LIST was published with
Fanout(m, agent_id) ==
    [kind |-> "fanout", handler |-> agent_id, m |-> m, again |-> FALSE]

\* the loop stops after the first factor
FanoutOnce(m, fs, agent_id) == <<>>

\* what is left of the loop once the m-th factor of fs is taken
FanoutAfter(m, fs, agent_id) ==
    IF m < Len(fs) THEN <<Fanout(m + 1, agent_id)>> ELSE <<>>

\* the mutable objects a handler works on
World ==
    [messages |-> messages, stack |-> stack, resolutions |-> resolutions,
     support_claims |-> support_claims, critic_claims |-> critic_claims,
     rebuttals_issued |-> rebuttals_issued, handled_by |-> handled_by,
     factors |-> factors, assumption_tracker |-> assumption_tracker,
     violation |-> FALSE]

Becomes(w) ==
    /\ messages' = w.messages
    /\ stack' = w.stack
    /\ resolutions' = w.resolutions
    /\ support_claims' = w.support_claims
    /\ critic_claims' = w.critic_claims
    /\ rebuttals_issued' = w.rebuttals_issued
    /\ handled_by' = w.handled_by
    /\ factors' = w.factors

\* a publish that leaves its tasks to the event loop and does not await them
publish_detached(w, message, agent_id) ==
    LET m == [message EXCEPT !.id = Len(w.messages), !.publisher = agent_id]
        tasks == [i \in 1 .. Len(Subscribers(m.type)) |->
                     Task(Subscribers(m.type)[i], Len(w.messages) + 1)]
        listed == m.type = "FACTOR_LIST"
        loop == IF listed /\ m.factors # <<>> THEN <<Fanout(1, agent_id)>>
                ELSE <<>>
    IN  [w EXCEPT !.messages = Append(w.messages, m),
                  !.factors = IF listed THEN m.factors ELSE w.factors,
                  !.stack = loop \o w.stack \o tasks]

\* MessageBus.publish, up to its first await: the message is stamped and
\* logged; a FACTOR_LIST replaces self.factors and starts the loop that
\* publishes the FACTOR_DISCOVERED messages; the subscribers of the message's
\* type are notified when that loop is over
publish(w, message, agent_id) ==
    LET m == [message EXCEPT !.id = Len(w.messages), !.publisher = agent_id]
        tasks == [i \in 1 .. Len(Subscribers(m.type)) |->
                     Task(Subscribers(m.type)[i], Len(w.messages) + 1)]
        listed == m.type = "FACTOR_LIST"
        loop == IF listed /\ m.factors # <<>> THEN <<Fanout(1, agent_id)>>
                ELSE <<>>
    IN  [w EXCEPT !.messages = Append(w.messages, m),
                  !.factors = IF listed THEN m.factors ELSE w.factors,
                  !.stack = loop \o tasks \o w.stack]

\* BaseAgent._publish; violation is the PolicyViolation of its validation,
\* raised before anything else is done
agent_publish(w, message, agent_id) ==
    IF /\ message.type # None
       /\ ~BaseAgent_validate_message_type(agent_id, message.type)
    THEN [w EXCEPT !.violation = TRUE]
    ELSE publish(w, [message EXCEPT !.agent_id = agent_id], agent_id)

LastMessage(w) == w.messages[Len(w.messages)]

-----------------------------------------------------------------------------
(* The bodies of the agents' operations, from the model's answer on *)

\* lines 176-195: the lines of the ASSUMPTIONS: block are registered, one
\* call each
RECURSIVE register_assumptions(_, _, _, _)
register_assumptions(trk, factor_id, n, res) ==
    IF n = 0 THEN trk
    ELSE register_assumptions(
             register_assumption(trk, SUPPORTING, factor_id, "stated", res,
                                 TRUE).tracker,
             factor_id, n - 1, res)

\* the answer that reports insufficient evidence is published before the
\* ASSUMPTIONS: block is looked for (lines 148-173)
support_factor(w, factor, response) ==
    LET c == support_claim(factor.id, response)
        trk == IF response.insufficient THEN w.assumption_tracker
               ELSE register_assumptions(w.assumption_tracker, factor.id,
                                         AssumptionLines(response),
                                         w.resolutions)
    IN  agent_publish(
            [w EXCEPT !.support_claims = Put(w.support_claims, factor.id, c),
                      !.assumption_tracker = trk],
            [Msg("SUPPORT_ARGUMENT") EXCEPT
                !.factor_id = factor.id, !.claim = Claim_to_dict(c),
                !.has_evidence = ~response.insufficient],
            SUPPORTING)

\* raised is TRUE when set_resolution raised ValueError; nothing after it ran
critique_factor(w, factor, support_argument, context_size, response) ==
    LET d == critique_decision(factor, support_argument, context_size,
                               w.messages, response)
        t == set_resolution(w.resolutions, factor.id, d.resolution,
                            d.justification, d.sub_claims, CRITIC)
        c == critic_claim(factor.id, d.resolution, support_argument)
    IN  IF t.raised THEN [raised |-> TRUE, w |-> w]
        ELSE [raised |-> FALSE,
              w |-> agent_publish(
                        [w EXCEPT !.resolutions = t.resolutions,
                                  !.critic_claims =
                                      Put(w.critic_claims, factor.id, c)],
                        [Msg("CRITIQUE") EXCEPT
                            !.factor_id = factor.id,
                            !.claim = Claim_to_dict(c),
                            !.resolution = d.resolution,
                            !.justification = d.justification,
                            !.sub_claims = d.sub_claims,
                            !.verdict = d.resolution],
                        CRITIC)]

\* called only when factor_id is in self.claims
rebut(w, factor_id, response) ==
    LET rebuttal_id == next_rebuttal_id(w.rebuttals_issued, factor_id)
        c0 == w.support_claims[factor_id]
        c1 == [c0 EXCEPT !.rebuttals = Append(c0.rebuttals, rebuttal_id)]
        c2 == IF is_concession(response) THEN Claim_weaken(c1) ELSE c1
        issued == IF Has(w.rebuttals_issued, factor_id)
                  THEN w.rebuttals_issued[factor_id] ELSE <<>>
    IN  agent_publish(
            [w EXCEPT !.support_claims = Put(w.support_claims, factor_id, c2),
                      !.rebuttals_issued =
                          Put(w.rebuttals_issued, factor_id,
                              Append(issued, rebuttal_id))],
            [Msg("REBUTTAL") EXCEPT
                !.factor_id = factor_id, !.rebuttal = response,
                !.rebuttal_id = rebuttal_id,
                !.updated_claim = Claim_to_dict(c2),
                !.is_concession = is_concession(response)],
            SUPPORTING)

\* the re-evaluation records its verdict in the tracker before publishing
re_evaluate_and_record(w, factor, response) ==
    IF updated_resolution(response) # "MAINTAIN_ORIGINAL"
    THEN agent_publish(
             [w EXCEPT !.resolutions =
                 set_resolution(w.resolutions, factor.id,
                                updated_resolution(response), "from response",
                                GenericSubClaims, CRITIC).resolutions],
             [Msg("CRITIQUE") EXCEPT
                 !.factor_id = factor.id,
                 !.verdict = updated_resolution(response),
                 !.justification = "from response",
                 !.is_update = TRUE],
             CRITIC)
    ELSE w

re_evaluate_after_rebuttal(w, factor, response) ==
    IF updated_resolution(response) # "MAINTAIN_ORIGINAL"
    THEN agent_publish(w,
             [Msg("CRITIQUE") EXCEPT
                 !.factor_id = factor.id,
                 !.verdict = updated_resolution(response),
                 !.justification = "from response",
                 !.is_update = TRUE],
             CRITIC)
    ELSE w

-----------------------------------------------------------------------------
(* The models explored *)

\* rebut is the answer to the first rebuttal prompt about a factor,
\* rebut_later the answer to the prompts about it that follow
LLM(support_r, critique_r, rebut_r, reeval_r, raises) ==
    [support |-> support_r, critique |-> critique_r, rebut |-> rebut_r,
     rebut_later |-> rebut_r, reeval |-> reeval_r, raises |-> raises]

\* the answer of the model to the rebuttal prompt of rebut (line 271)
RebutAnswer(model, issued, factor_id) ==
    IF Has(issued, factor_id) THEN model.rebut_later ELSE model.rebut

\* a rebuttal the critic re-evaluates: long enough and quoting
Reevaluated(text) ==
    text.len > StrongRebuttalMinLen /\ ~is_concession(text)

\* the models explored: every combination of answers with a client that
\* never raises (the re-evaluation answer varies only where it is asked
\* for), a few models whose client raises on one kind of prompt, and models
\* that concede in their first rebuttal of a factor and quote in the later
\* ones
LLMs ==
    {LLM(s, c, r, e, None) :
        s \in SupportResponses, c \in CritiqueResponses,
        r \in {x \in RebuttalResponses : Reevaluated(x)},
        e \in ReevalResponses}
    \cup
    {LLM(s, c, r, None, None) :
        s \in SupportResponses, c \in CritiqueResponses,
        r \in {x \in RebuttalResponses : ~Reevaluated(x)}}
    \cup
    {LLM([insufficient |-> FALSE], c, RebuttalText(120, {"QUOTE:"}),
         "ACCEPTED", k) :
        c \in {CritiqueResponse("REJECTED", {"REJECT"}, 0),
               CritiqueResponse("ACCEPTED", {"ACCEPT"}, 0)},
        k \in PromptKinds}
    \cup
    {[LLM([insufficient |-> FALSE],
          CritiqueResponse("REJECTED", {"REJECT"}, 0),
          RebuttalText(60, {"CONCEDE"}), e, None)
         EXCEPT !.rebut_later = RebuttalText(120, {"QUOTE:"})] :
        e \in {"MAINTAIN_ORIGINAL", "ACCEPTED"}}
    \cup
    {LLM(SupportWithAssumption, c, RebuttalText(60, {"CONCEDE"}), None,
         None) :
        c \in {CritiqueResponse("REJECTED", {"REJECT"}, 0),
               CritiqueResponse("ACCEPTED", {"ACCEPT"}, 0)}}

\* the models whose client raises on one kind of prompt
RaisingLLMs == {x \in LLMs : x.raises # None}

-----------------------------------------------------------------------------
(* agents/factor_extraction_agent.py: what process makes of the model's     *)
(* answer                                                                   *)

\* a parsed factor with what the validator and the quote check find in it
RawFactor(id, words, is_circular, is_grounded, quote_found) ==
    [id |-> id, words |-> words, is_circular |-> is_circular,
     is_grounded |-> is_grounded, quote_found |-> quote_found]

\* lines 96-134: the validation of the first entry with the factor's id is
\* attached, then a quote missing from the document clears is_grounded
annotate(raw) ==
    [i \in 1 .. Len(raw) |->
        LET v == raw[CHOOSE j \in 1 .. Len(raw) :
                         /\ raw[j].id = raw[i].id
                         /\ \A k \in 1 .. (j - 1) : raw[k].id # raw[i].id]
        IN  Factor(raw[i].id, raw[i].words, v.is_circular,
                   v.is_grounded /\ raw[i].quote_found)]

validate_factor_list(raw) ==
    [ungrounded_factors |->
         Cardinality({i \in 1 .. Len(raw) : ~raw[i].is_grounded}),
     circular_factors |->
         Cardinality({i \in 1 .. Len(raw) : raw[i].is_circular})]

PlainRaw(id) == RawFactor(id, {}, FALSE, TRUE, TRUE)

RawKinds(id) ==
    {PlainRaw(id),
     RawFactor(id, {"because"}, FALSE, TRUE, TRUE),
     RawFactor(id, {}, TRUE, TRUE, TRUE),
     RawFactor(id, {}, FALSE, FALSE, TRUE),
     RawFactor(id, {"because"}, FALSE, TRUE, FALSE)}

\* the answers of the extraction the model explores
SessionFactorLists ==
    {<<>>, <<PlainRaw(ZeroId)>>}
        \cup {<<r>> : r \in RawKinds("f1")}
        \cup {<<PlainRaw("f1"), r>> :
                 r \in {PlainRaw("f1"), PlainRaw("f2"),
                        RawFactor("f2", {}, TRUE, TRUE, TRUE)}}

InputLens == {SmallContextLimit - 1, SmallContextLimit}

\* what_worked of the synthesis: nothing, one item naming a factor, or one
\* item whose factor_id is not hashable
SessionWorked(fs) ==
    {<<>>, <<[is_dict |-> TRUE, factor_id |-> Unhashable]>>}
        \cup {<<[is_dict |-> TRUE, factor_id |-> fs[i].id]>> :
                 i \in 1 .. Len(fs)}

-----------------------------------------------------------------------------
(* The session: Orchestrator.analyze and the subscribers it sets off *)

MaxMessages == 24

Room == Len(messages) < MaxMessages

Top == Head(stack)
Rest == Tail(stack)

Running(handler) ==
    stack # <<>> /\ Top.kind = "task" /\ Top.handler = handler

HasFactor(fs, factor_id) == \E i \in 1 .. Len(fs) : fs[i].id = factor_id

\* what a subscriber leaves alone
HandlerFrame ==
    UNCHANGED <<checks, pc, idx, support, critique, synthesis,
                result, input_len, llm, registry, enabled,
                subscriptions, notify, db, assumption_tracker,
                   activations, claim>>

\* the task ends: by an early return, or by an exception gather swallows
Returned == [World EXCEPT !.stack = Rest]

\* the task goes on to its mark_handled call once the publish it awaits is over
Awaiting(agent_id) == [World EXCEPT !.stack = <<Mark(agent_id, Top.m)>> \o Rest]

Marked(agent_id) ==
    [World EXCEPT !.stack = Rest,
                  !.handled_by = mark_handled(handled_by, messages[Top.m].id,
                                              agent_id)]

Called(op, m, w) ==
    [op |-> op, m |-> m, published |-> Len(w.messages) - Len(messages),
     reactive |-> stack # <<>>, again |-> stack # <<>> /\ Top.again,
     violation |-> w.violation]

\* SupportingAgent._on_factor_discovered
OnFactorDiscovered ==
    /\ Running("_on_factor_discovered")
    /\ Room
    /\ LET message == messages[Top.m]
           w == IF \/ is_handled_by(handled_by, message.id, SUPPORTING)
                   \/ Falsy(message.factor.id)
                   \/ llm.raises = "support"
                THEN Returned
                ELSE support_factor(Awaiting(SUPPORTING), message.factor,
                                    llm.support)
       IN  /\ Becomes(w)
           /\ assumption_tracker' = w.assumption_tracker
           /\ last' = Called("_on_factor_discovered", Top.m, w)
    /\ UNCHANGED <<checks, pc, idx, support, critique, synthesis,
                   result, input_len, llm, registry, enabled,
                   subscriptions, notify, db, activations, claim>>

\* CriticAgent._on_support_argument
OnSupportArgument ==
    /\ Running("_on_support_argument")
    /\ Room
    /\ LET message == messages[Top.m]
           skip == \/ is_handled_by(handled_by, message.id, CRITIC)
                   \/ Falsy(message.factor_id)
                   \/ ~HasFactor(factors, message.factor_id)
                   \/ llm.raises = "critique"
           factor == get_factor(factors, message.factor_id)
           r == critique_factor(Awaiting(CRITIC), factor, message, input_len,
                                llm.critique)
           w == IF skip \/ r.raised THEN Returned ELSE r.w
       IN  /\ Becomes(w)
           /\ last' = IF skip
                      THEN Called("_on_support_argument", Top.m, w)
                      ELSE Called("critique_factor", Top.m, w) @@
                           [factor |-> factor, support_argument |-> message,
                            context_size |-> input_len,
                            response |-> llm.critique,
                            conceded |-> has_concession(messages, factor.id),
                            raised |-> r.raised]
    /\ HandlerFrame

\* SupportingAgent._on_critique: no is_handled_by test, no mark_handled
OnCritique ==
    /\ Running("_on_critique")
    /\ Room
    /\ LET message == messages[Top.m]
           w == IF \/ Falsy(message.factor_id)
                   \/ ~Has(support_claims, message.factor_id)
                   \/ llm.raises = "rebut"
                THEN Returned
                ELSE rebut(Returned, message.factor_id,
                           RebutAnswer(llm, rebuttals_issued,
                                       message.factor_id))
       IN  /\ Becomes(w)
           /\ last' = Called("_on_critique", Top.m, w)
    /\ HandlerFrame

\* CriticAgent._on_rebuttal; a concession returns before mark_handled
OnRebuttal ==
    /\ Running("_on_rebuttal")
    /\ Room
    /\ LET message == messages[Top.m]
           skip == \/ is_handled_by(handled_by, message.id, CRITIC)
                   \/ Falsy(message.factor_id)
                   \/ message.is_concession
                   \/ ~HasFactor(factors, message.factor_id)
           w == IF skip
                THEN Returned
                ELSE IF ~is_strong_rebuttal(message)
                THEN Marked(CRITIC)
                ELSE IF llm.raises = "reeval"
                THEN Returned
                ELSE IF updated_resolution(llm.reeval) = "MAINTAIN_ORIGINAL"
                THEN Marked(CRITIC)
                ELSE re_evaluate_after_rebuttal(
                         Awaiting(CRITIC),
                         get_factor(factors, message.factor_id), llm.reeval)
       IN  /\ Becomes(w)
           /\ last' = Called("_on_rebuttal", Top.m, w) @@
                      [reevaluated |-> ~skip /\ is_strong_rebuttal(message)]
    /\ HandlerFrame

\* FinalDecisionAgent._on_synthesis_complete does nothing
OnSynthesisComplete ==
    /\ Running("_on_synthesis_complete")
    /\ Becomes(Returned)
    /\ last' = Called("_on_synthesis_complete", Top.m, Returned)
    /\ HandlerFrame

\* the publish a handler awaited is over: the handler marks the message
MarkHandled ==
    /\ stack # <<>>
    /\ Top.kind = "mark"
    /\ Becomes(Marked(Top.handler))
    /\ last' = Called("mark_handled", Top.m, Returned)
    /\ HandlerFrame

\* MessageBus.publish of a FACTOR_LIST: one FACTOR_DISCOVERED per factor,
\* each awaited before the next
FactorDiscovered ==
    /\ stack # <<>>
    /\ Top.kind = "fanout"
    /\ Room
    /\ LET factor == factors[Top.m]
           below == FanoutAfter(Top.m, factors, Top.handler) \o Rest
           w == publish([World EXCEPT !.stack = below],
                        [Msg("FACTOR_DISCOVERED") EXCEPT
                            !.factor = factor, !.factor_id = factor.id],
                        Top.handler)
       IN  /\ Becomes(w)
           /\ last' = Called("publish", Top.m, w)
    /\ HandlerFrame

\* analyze runs on only while no task is awaited
AnalyzeAt(position) == pc = position /\ stack = <<>>

\* the progress callback raised inside the try block (line 103, with
\* show_updates) and again in the except branch (line 221): the exception
\* leaves analyze
Propagated ==
    /\ pc' = "raised"
    /\ last' = [op |-> "raise", at |-> "_notify_progress",
                reactive |-> FALSE]
    /\ UNCHANGED <<messages, factors, handled_by, resolutions, support_claims,
                   critic_claims, rebuttals_issued, checks, idx, support,
                   critique, synthesis, result, input_len, llm, registry, enabled,
                   subscriptions, notify, db, assumption_tracker,
                   activations, stack,
                   claim>>

\* a call of analyze raised before it changed anything
Failed(op) ==
    /\ Except(op)
    /\ UNCHANGED <<messages, factors, handled_by, resolutions, support_claims,
                   critic_claims, rebuttals_issued, checks, idx, support,
                   critique, synthesis, input_len, llm, registry, enabled,
                   subscriptions, notify, db, assumption_tracker,
                   activations, stack, claim>>

\* the debate loop ends in the final report, leaving the synthesis out
NextFactorToFinal ==
    /\ idx' = idx + 1
    /\ pc' = IF idx < Len(factors) THEN "support_factor" ELSE "final"

\* the debate loop moves to the next factor, or ends
NextFactor ==
    /\ idx' = idx + 1
    /\ pc' = IF idx < Len(factors) THEN "support_factor" ELSE "synthesize"

\* lines 88-98
AnalyzeStart ==
    /\ AnalyzeAt("idle")
    /\ messages' = <<>>
    /\ factors' = <<>>
    /\ handled_by' = EmptyDict
    /\ resolutions' = EmptyDict
    /\ checks' = EmptyDict
    /\ assumption_tracker' = EmptyTracker
    /\ input_len' \in InputLens
    /\ pc' = "process"
    /\ last' = [op |-> "analyze", reactive |-> FALSE]
    /\ UNCHANGED <<support_claims, critic_claims, rebuttals_issued, idx,
                   support, critique, synthesis, result, llm, registry, enabled,
                   subscriptions, notify, db, activations, stack, claim>>

\* FactorExtractionAgent.process, to the publish of the FACTOR_LIST
Process ==
    /\ AnalyzeAt("process")
    /\ IF notify = "raises" THEN Propagated
       ELSE IF llm.raises = "extract" THEN Failed("process")
       ELSE \E raw \in SessionFactorLists :
              LET w == agent_publish(
                           World,
                           [Msg("FACTOR_LIST") EXCEPT
                               !.factors = annotate(raw),
                               !.validation_results =
                                   validate_factor_list(raw)],
                           EXTRACTION)
              IN  /\ Becomes(w)
                  /\ idx' = 1
                  /\ pc' = IF raw = <<>> THEN "synthesize"
                           ELSE "support_factor"
                  /\ last' = Called("process", 0, w)
                  /\ UNCHANGED <<checks, support, critique, synthesis, result,
                                 input_len, llm, registry, enabled,
                                 subscriptions, notify, db, assumption_tracker,
                   activations, claim>>

\* line 131
SupportFactor ==
    /\ AnalyzeAt("support_factor")
    /\ Room
    /\ IF llm.raises = "support" THEN Failed("support_factor")
       ELSE LET w == support_factor(World, factors[idx], llm.support)
            IN  /\ Becomes(w)
                /\ assumption_tracker' = w.assumption_tracker
                /\ support' = LastMessage(w)
                /\ pc' = "critique_factor"
                /\ last' = Called("support_factor", idx, w)
                /\ UNCHANGED <<checks, idx, critique, synthesis,
                               result, input_len, llm, registry, enabled,
                               subscriptions, notify, db, activations, claim>>

\* lines 134-137
CritiqueFactor ==
    /\ AnalyzeAt("critique_factor")
    /\ Room
    /\ LET r == critique_factor(World, factors[idx], support, input_len,
                                llm.critique)
       IN  IF llm.raises = "critique" \/ r.raised
           THEN Failed("critique_factor")
           ELSE /\ Becomes(r.w)
                /\ critique' = LastMessage(r.w)
                /\ IF LastMessage(r.w).resolution # "ACCEPTED"
                   THEN pc' = "rebut" /\ idx' = idx
                   ELSE NextFactor
                /\ last' = Called("critique_factor", idx, r.w) @@
                           [factor |-> factors[idx],
                            support_argument |-> support,
                            context_size |-> input_len,
                            response |-> llm.critique,
                            conceded |->
                                has_concession(messages, factors[idx].id),
                            raised |-> FALSE]
                /\ UNCHANGED <<checks, support, synthesis, result,
                               input_len, llm, registry, enabled,
                               subscriptions, notify, db, assumption_tracker,
                   activations, claim>>

\* line 138
Rebut ==
    /\ AnalyzeAt("rebut")
    /\ Room
    /\ IF ~Has(support_claims, factors[idx].id)
       THEN /\ NextFactor
            /\ last' = Called("rebut", idx, World)
            /\ UNCHANGED <<messages, factors, handled_by, resolutions,
                           support_claims, critic_claims, rebuttals_issued,
                           checks, support, critique, synthesis, result,
                           input_len, llm, registry, enabled,
                           subscriptions, notify, db, assumption_tracker,
                   activations, stack, claim>>
       ELSE IF llm.raises = "rebut" THEN Failed("rebut")
       ELSE LET w == rebut(World, factors[idx].id,
                             RebutAnswer(llm, rebuttals_issued,
                                         factors[idx].id))
            IN  /\ Becomes(w)
                /\ NextFactor
                /\ last' = Called("rebut", idx, w)
                /\ UNCHANGED <<checks, support, critique, synthesis,
                               result, input_len, llm, registry, enabled,
                               subscriptions, notify, db, assumption_tracker,
                   activations, claim>>

\* the keys of factor_debates in insertion order: the factor ids, each once
debate_ids(fs) ==
    LET first == {i \in 1 .. Len(fs) :
                     \A j \in 1 .. (i - 1) : fs[j].id # fs[i].id}
        nth(k) == CHOOSE i \in first :
                      Cardinality({j \in first : j < i}) = k - 1
    IN  [k \in 1 .. Cardinality(first) |-> fs[nth(k)].id]

\* the id of the last message of the type for the factor, -1 without one
last_of(log, type, factor_id) ==
    LET at == {i \in 1 .. Len(log) :
                  log[i].type = type /\ log[i].factor_id = factor_id}
    IN  IF at = {} THEN -1
        ELSE log[CHOOSE i \in at : \A j \in at : j <= i].id

\* debate_summary of one factor: its name and the parts of the three
\* messages kept for it in factor_debates
debate_of(log, factor_id) ==
    [factor_id |-> factor_id,
     support |-> last_of(log, "SUPPORT_ARGUMENT", factor_id),
     critique |-> last_of(log, "CRITIQUE", factor_id),
     rebuttal |-> last_of(log, "REBUTTAL", factor_id)]

\* factor_debates[msg['factor_id']] raises KeyError
factor_debates_raises(log, fs) ==
    \E i \in 1 .. Len(log) :
        /\ log[i].type \in {"SUPPORT_ARGUMENT", "CRITIQUE", "REBUTTAL"}
        /\ \A j \in 1 .. Len(fs) : fs[j].id # log[i].factor_id

\* a debate goes to the rejected text for PARTIALLY_ACCEPTED factors as well
in_rejected_debates_or_partial(res, factor_id) ==
    \/ factor_id \in get_rejected_factors(res)
    \/ factor_id \in get_partially_accepted_factors(res)

\* line 107: factor_id in rejected_factor_ids
in_rejected_debates(res, factor_id) ==
    factor_id \in get_rejected_factors(res)

RECURSIVE debates_text(_, _, _, _)
\* the two texts of lines 93-110, as the sequence of the debates they are
\* made of: rejected_debates_text with rejected = TRUE, debates_text without
debates_text(log, ids, res, rejected) ==
    IF ids = <<>> THEN <<>>
    ELSE (IF in_rejected_debates(res, Head(ids)) = rejected
          THEN <<debate_of(log, Head(ids))>> ELSE <<>>)
         \o debates_text(log, Tail(ids), res, rejected)

\* SynthesizerAgent.synthesize, line 151
Synthesize ==
    /\ AnalyzeAt("synthesize")
    /\ IF \/ llm.raises = "synthesize"
          \/ factor_debates_raises(messages, factors)
       THEN Failed("synthesize")
       ELSE \E ww \in SessionWorked(factors) :
              LET ids == debate_ids(factors)
                  w == agent_publish(World,
                           [Msg("SYNTHESIS_NOTE") EXCEPT
                               !.structured = [what_worked |-> ww,
                                               what_failed |-> <<>>],
                               !.debate_summary =
                                   debates_text(messages, ids, resolutions,
                                                FALSE),
                               !.rejected_debates =
                                   debates_text(messages, ids, resolutions,
                                                TRUE)],
                           SYNTHESIZER)
              IN  /\ Becomes(w)
                  /\ synthesis' = LastMessage(w)
                  /\ pc' = "final"
                  /\ last' = Called("synthesize", 0, w)
                  /\ UNCHANGED <<checks, idx, support, critique,
                                 result, input_len, llm, registry, enabled,
                                 subscriptions, notify, db, assumption_tracker,
                   activations, claim>>

\* FinalDecisionAgent.generate_final_report, line 162
FinalReport ==
    /\ AnalyzeAt("final")
    /\ IF llm.raises = "final" THEN Failed("generate_final_report")
       ELSE LET w == agent_publish(World, Msg("FINAL_DIRECTIVE"), FINAL)
            IN  /\ Becomes(w)
                /\ pc' = "integrity"
                /\ last' = Called("generate_final_report", 0, w)
                /\ UNCHANGED <<checks, idx, support, critique,
                               synthesis, result, input_len, llm, registry, enabled,
                               subscriptions, notify, db, assumption_tracker,
                   activations, claim>>

Init ==
    /\ assumption_tracker = EmptyTracker
    /\ db = EmptyDict
    /\ BusEmpty /\ AgentsFresh /\ OrchestratorIdle
    /\ Wired
    /\ resolutions = EmptyDict
    /\ checks = EmptyDict
    /\ input_len = 0
    /\ \/ notify = "returns" /\ llm \in LLMs
       \/ notify = "raises" /\ llm \in RaisingLLMs
    /\ claim = NoClaim
    /\ last = [op |-> "init", reactive |-> FALSE]

Next ==
    \/ AnalyzeStart
    \/ Process
    \/ FactorDiscovered
    \/ OnFactorDiscovered
    \/ OnSupportArgument
    \/ OnCritique
    \/ OnRebuttal
    \/ MarkHandled
    \/ SupportFactor
    \/ CritiqueFactor
    \/ Rebut
    \/ Synthesize
    \/ OnSynthesisComplete
    \/ FinalReport
    \/ AnalyzeIntegrity

Spec == Init /\ [][Next]_vars

-----------------------------------------------------------------------------
(* SpecHandlers: a session, after which one message of the log is given    *)
(* once more to the handler subscribed to its type                         *)

Redeliver ==
    /\ AnalyzeAt("done")
    /\ \E m \in 1 .. Len(messages) :
           /\ messages[m].type \in {"FACTOR_DISCOVERED", "SUPPORT_ARGUMENT",
                                    "CRITIQUE", "REBUTTAL"}
           /\ stack' = <<TaskAgain(Subscribers(messages[m].type)[1], m)>>
           /\ last' = [op |-> "redeliver", m |-> m, reactive |-> FALSE]
    /\ pc' = "again"
    /\ UNCHANGED <<messages, factors, handled_by, resolutions, support_claims,
                   critic_claims, rebuttals_issued, checks, idx, support,
                   critique, synthesis, result, input_len, llm, registry, enabled,
                   subscriptions, notify, db, assumption_tracker,
                   activations, claim>>

NextHandlers == Next \/ Redeliver

SpecHandlers == Init /\ [][NextHandlers]_vars

-----------------------------------------------------------------------------
(* SpecClaim: one Claim object, any sequence of method calls *)

TriStateSeqs == UNION {[1 .. n -> {Untested, Valid, Invalid}] : n \in 0 .. MaxAssumptions}
EvidenceSeqs == UNION {[1 .. n -> EvidenceStrength] : n \in 0 .. MaxEvidence}
Tenths == 0 .. 10

InitClaim ==
    /\ assumption_tracker = EmptyTracker
    /\ db = EmptyDict
    /\ Wired /\ notify = "returns"
    /\ BusEmpty /\ AgentsFresh /\ OrchestratorIdle
    /\ resolutions = EmptyDict
    /\ checks = EmptyDict
    /\ input_len = 0
    /\ llm = None
    /\ \E st \in ClaimStatus, cf \in Tenths, as \in TriStateSeqs, ev \in EvidenceSeqs :
           claim = [NewClaim(<<"support", 1, 0>>, 1, SUPPORTING) EXCEPT
                        !.status = st, !.confidence = cf,
                        !.assumptions = as, !.evidence = ev]
    /\ last = [op |-> "init"]

ClaimFrame ==
    UNCHANGED <<messages, factors, handled_by, resolutions, support_claims,
                critic_claims, rebuttals_issued, checks, pc, idx, support,
                critique, synthesis, result, input_len, llm, registry, enabled,
                subscriptions, notify, db, assumption_tracker,
                   activations, stack>>

ClaimWeaken ==
    /\ claim' = Claim_weaken(claim)
    /\ last' = [op |-> "weaken", before |-> claim.confidence]
    /\ ClaimFrame

ClaimInvalidate ==
    /\ claim' = Claim_invalidate(claim)
    /\ last' = [op |-> "invalidate", before |-> claim.confidence]
    /\ ClaimFrame

ClaimConcede ==
    /\ claim' = Claim_concede(claim)
    /\ last' = [op |-> "concede", before |-> claim.confidence]
    /\ ClaimFrame

ClaimChallengeAssumption ==
    \E i \in -1 .. MaxAssumptions :
        /\ claim' = Claim_challenge_assumption(claim, i).claim
        /\ last' = [op |-> "challenge_assumption", before |-> claim.confidence,
                    ret |-> Claim_challenge_assumption(claim, i).ret]
        /\ ClaimFrame

ClaimAddAssumption ==
    /\ Len(claim.assumptions) < MaxAssumptions
    /\ claim' = Claim_add_assumption(claim)
    /\ last' = [op |-> "add_assumption", before |-> claim.confidence]
    /\ ClaimFrame

ClaimAddEvidence ==
    /\ Len(claim.evidence) < MaxEvidence
    /\ \E e \in EvidenceStrength : claim' = Claim_add_evidence(claim, e)
    /\ last' = [op |-> "add_evidence", before |-> claim.confidence]
    /\ ClaimFrame

NextClaim ==
    \/ ClaimWeaken
    \/ ClaimInvalidate
    \/ ClaimConcede
    \/ ClaimChallengeAssumption
    \/ ClaimAddAssumption
    \/ ClaimAddEvidence

SpecClaim == InitClaim /\ [][NextClaim]_vars

-----------------------------------------------------------------------------
(* SpecBus: the idempotency map under arbitrary calls *)

BusIds == 0 .. MaxBusId
BusAgents == {SUPPORTING, CRITIC, SYNTHESIZER}

InitBus ==
    /\ assumption_tracker = EmptyTracker
    /\ db = EmptyDict
    /\ Wired /\ notify = "returns"
    /\ BusEmpty /\ AgentsFresh /\ OrchestratorIdle
    /\ resolutions = EmptyDict
    /\ checks = EmptyDict
    /\ input_len = 0
    /\ llm = None
    /\ claim = NoClaim
    /\ last = [op |-> "init"]

BusFrame ==
    UNCHANGED <<resolutions, support_claims, critic_claims, rebuttals_issued,
                checks, pc, idx, support, critique, synthesis, result,
                input_len, llm, registry, enabled,
                subscriptions, notify, db, assumption_tracker,
                   activations, stack, claim>>

BusMarkHandled ==
    \E m \in BusIds, a \in BusAgents :
        /\ handled_by' = mark_handled(handled_by, m, a)
        /\ last' = [op |-> "mark_handled", m |-> m, a |-> a]
        /\ UNCHANGED <<messages, factors>>
        /\ BusFrame

BusIsHandledBy ==
    \E m \in BusIds, a \in BusAgents :
        /\ last' = [op |-> "is_handled_by", m |-> m, a |-> a,
                    ret |-> is_handled_by(handled_by, m, a),
                    again |-> /\ last.op = "is_handled_by"
                              /\ last.m = m /\ last.a = a /\ last.ret]
        /\ UNCHANGED <<messages, factors, handled_by>>
        /\ BusFrame

BusClear ==
    /\ messages' = <<>>
    /\ factors' = <<>>
    /\ handled_by' = EmptyDict
    /\ last' = [op |-> "clear"]
    /\ BusFrame

NextBus ==
    \/ BusMarkHandled
    \/ BusIsHandledBy
    \/ BusClear

SpecBus == InitBus /\ [][NextBus]_vars

-----------------------------------------------------------------------------
(* Properties of SpecBus *)

BusPairs == BusIds \X BusAgents

\* C5: a pair (message, agent) is unhandled at the start; it becomes handled
\* only by a mark_handled of that very pair; once handled it stays handled
\* through every call except clear; a mark_handled(m, a) leaves it handled;
\* and is_handled_by returns the flag without changing it.
C5_MarkHandledIdempotent ==
    /\ \A p \in BusPairs : ~is_handled_by(handled_by, p[1], p[2])
    /\ [][/\ \A p \in BusPairs :
               /\ (~is_handled_by(handled_by, p[1], p[2])
                     /\ is_handled_by(handled_by', p[1], p[2]))
                    => (last'.op = "mark_handled" /\ last'.m = p[1] /\ last'.a = p[2])
               /\ (is_handled_by(handled_by, p[1], p[2]) /\ last'.op # "clear")
                    => is_handled_by(handled_by', p[1], p[2])
          /\ last'.op = "mark_handled"
               => is_handled_by(handled_by', last'.m, last'.a)
          /\ last'.op = "is_handled_by"
               => last'.ret = is_handled_by(handled_by, last'.m, last'.a)
         ]_vars

\* two handled-checks in a row after a mark, both answering true, while
\* another agent's flag for the same message is still unset
C5_Witness ==
    /\ last.op = "is_handled_by"
    /\ last.ret
    /\ last.again
    /\ \E a \in BusAgents : ~is_handled_by(handled_by, last.m, a)

-----------------------------------------------------------------------------
(* Properties of SpecClaim *)

\* C9: weaken() never raises the confidence and never takes it below 0 (it
\* subtracts 0.2 with a floor of 0); invalidate() sets it to exactly 0.
C9_WeakenInvalidateConfidence ==
    [][/\ last'.op = "weaken"
            => /\ claim'.confidence <= claim.confidence
               /\ claim'.confidence >= 0
               /\ claim'.confidence = Max(0, claim.confidence - WeakenStep)
       /\ last'.op = "invalidate" => claim'.confidence = 0
      ]_vars

\* a weaken() that hit the floor
C9_Witness ==
    /\ last.op = "weaken"
    /\ last.before = 1
    /\ claim.confidence = 0

-----------------------------------------------------------------------------
(* Properties of SpecIntegrity *)

RejectedInWhatWorked ==
    \E fid \in DOMAIN resolutions :
        /\ resolutions[fid].status = "REJECTED"
        /\ \E i \in 1 .. Len(synthesis.structured.what_worked) :
               /\ synthesis.structured.what_worked[i].is_dict
               /\ synthesis.structured.what_worked[i].factor_id = fid

EveryFactorResolved ==
    \A i \in 1 .. Len(factors) : factors[i].id \in DOMAIN resolutions

\* C7: the recorded rejected_factors_excluded check failed exactly when a
\* factor id the tracker marks REJECTED is the factor_id of an item of
\* synthesis.structured.what_worked; it passed otherwise.
C7_RejectedExcludedExact ==
    Has(checks, "rejected_factors_excluded")
        => (checks["rejected_factors_excluded"].passed <=> ~RejectedInWhatWorked)

\* the check failed on a leak while another rejected factor stayed out
C7_Witness ==
    /\ Has(checks, "rejected_factors_excluded")
    /\ ~checks["rejected_factors_excluded"].passed
    /\ RejectedInWhatWorked
    /\ \E fid \in DOMAIN resolutions :
           /\ resolutions[fid].status = "REJECTED"
           /\ fid \notin what_worked_ids(synthesis)

\* C8: synthesis_valid is true exactly when the rejected-factors-excluded
\* check passed and every extracted factor has a tracker entry, whatever the
\* other three checks say; analyze returns success=true with that value.
C8_SynthesisValidExact ==
    /\ Has(checks, "synthesis_valid")
         => (checks["synthesis_valid"].passed
               <=> (checks["rejected_factors_excluded"].passed
                      /\ EveryFactorResolved))
    /\ pc = "done"
         => /\ result.success
            /\ result.integrity_check.synthesis_valid
                 <=> (~RejectedInWhatWorked /\ EveryFactorResolved)

\* analyze returned a success result whose synthesis_valid is false only
\* because a factor has no resolution
C8_Witness ==
    /\ pc = "done"
    /\ result.success
    /\ ~EveryFactorResolved
    /\ ~RejectedInWhatWorked
    /\ checks["rejected_factors_excluded"].passed
    /\ ~result.integrity_check.synthesis_valid

-----------------------------------------------------------------------------
(* Properties of Spec: the critic's decision *)

CritiqueCalled == last.op = "critique_factor"

\* the CRITIQUE the call just published
PublishedCritique == messages[Len(messages)]

\* the call recorded status st in the tracker and in the CRITIQUE
Resolved(st) ==
    /\ ~last.raised
    /\ Has(resolutions, last.factor.id)
    /\ resolutions[last.factor.id].status = st
    /\ PublishedCritique.type = "CRITIQUE"
    /\ PublishedCritique.factor_id = last.factor.id
    /\ PublishedCritique.resolution = st
    /\ PublishedCritique.verdict = st

CleanFactor ==
    /\ ~last.conceded
    /\ ~last.factor.validation.is_circular
    /\ last.factor.validation.is_grounded

DescriptiveSmall ==
    /\ last.factor.words \cap CausalKeywords = {}
    /\ last.context_size < SmallContextLimit

\* C1: after every critique_factor call on a factor whose validation says
\* is_circular, the tracker entry and the resolution and verdict of the
\* published CRITIQUE are REJECTED, whatever the model answered, whatever the
\* support argument and the log were.
C1_CircularRejected ==
    (CritiqueCalled /\ last.factor.validation.is_circular)
        => Resolved("REJECTED")

\* a circular, non-causal factor in a small context, backed by evidence,
\* whose critique answer asked for ACCEPTED
C1_Witness ==
    /\ CritiqueCalled
    /\ last.factor.validation.is_circular
    /\ last.factor.validation.is_grounded
    /\ ~last.conceded
    /\ last.context_size < SmallContextLimit
    /\ last.support_argument.has_evidence
    /\ last.response.token = "ACCEPTED"
    /\ Resolved("REJECTED")

C3_DescriptiveAccepted ==
    (CritiqueCalled /\ CleanFactor /\ DescriptiveSmall)
        => /\ Resolved("ACCEPTED")
           /\ PublishedCritique.justification = JustAutoAccept
           /\ resolutions[last.factor.id].justification = JustAutoAccept

\* the answer named causality and the first rebuttal only re-quoted: the
\* override would have rejected the factor
C3_Witness ==
    /\ CritiqueCalled
    /\ CleanFactor
    /\ DescriptiveSmall
    /\ causality_override(last.response, messages, last.factor.id)
    /\ Resolved("ACCEPTED")

-----------------------------------------------------------------------------
(* Properties of Spec: the session *)

FinalStatuses == {"ACCEPTED", "PARTIALLY_ACCEPTED", "REJECTED"}

\* C4: when analyze has returned success=true, the tracker has, for every
\* factor of the returned list, an entry under the factor's id, for that
\* factor, with status ACCEPTED, PARTIALLY_ACCEPTED or REJECTED.
C4_ResolvedOnSuccess ==
    (pc = "done" /\ result.success)
        => \A i \in 1 .. Len(result.factors) :
              /\ Has(resolutions, result.factors[i].id)
              /\ resolutions[result.factors[i].id].factor_id
                     = result.factors[i].id
              /\ resolutions[result.factors[i].id].status \in FinalStatuses

\* a finished session with two factors of different ids, one resolved
\* REJECTED and one not
C4_Witness ==
    /\ pc = "done"
    /\ result.success
    /\ Len(result.factors) = 2
    /\ result.factors[1].id # result.factors[2].id
    /\ resolutions[result.factors[1].id].status # "REJECTED"
    /\ resolutions[result.factors[2].id].status = "REJECTED"

\* the claims of the two stores and the snapshots the messages carry, each
\* as a to_dict record
StoredClaims ==
    {Claim_to_dict(support_claims[f]) : f \in DOMAIN support_claims}
        \cup {Claim_to_dict(critic_claims[f]) : f \in DOMAIN critic_claims}

SnapshotClaims ==
    {messages[i].claim :
        i \in {j \in 1 .. Len(messages) :
                  \/ messages[j].type = "SUPPORT_ARGUMENT"
                  \/ messages[j].type = "CRITIQUE" /\ ~messages[j].is_update}}
        \cup {messages[i].updated_claim :
                 i \in {j \in 1 .. Len(messages) : messages[j].type = "REBUTTAL"}}

\* C10 as stated: every stored claim and every snapshot with status
\* INVALIDATED has confidence 0.
C10_InvalidatedHasZeroConfidence ==
    \A c \in StoredClaims \cup SnapshotClaims :
        c.status = "invalidated" => c.confidence = 0

\* C10: in a session the only INVALIDATED claims, stored or in a snapshot,
\* are the Critic's claims for factors it resolved REJECTED, and their
\* confidence is 0.9; a CRITIQUE carries an INVALIDATED snapshot exactly when
\* its resolution is REJECTED; no claim of the Supporting agent is
\* INVALIDATED.
C10_InvalidatedIsCriticRejection ==
    /\ \A c \in StoredClaims \cup SnapshotClaims :
           c.status = "invalidated"
               => c.agent_id = CRITIC /\ c.confidence = RejectedConfidence
    /\ \A i \in 1 .. Len(messages) :
           (messages[i].type = "CRITIQUE" /\ ~messages[i].is_update)
               => (messages[i].claim.status = "invalidated"
                     <=> messages[i].resolution = "REJECTED")

\* the Critic's store and a published CRITIQUE both hold an INVALIDATED claim
\* with confidence 0.9, next to a weakened claim of the Supporting agent
C10_Witness ==
    /\ \E f \in DOMAIN critic_claims :
           /\ critic_claims[f].status = "invalidated"
           /\ critic_claims[f].confidence = RejectedConfidence
           /\ Has(support_claims, f)
           /\ support_claims[f].status = "weakened"
    /\ \E i \in 1 .. Len(messages) :
           /\ messages[i].type = "CRITIQUE"
           /\ ~messages[i].is_update
           /\ messages[i].claim.status = "invalidated"
           /\ messages[i].claim.confidence = RejectedConfidence

-----------------------------------------------------------------------------
(* Properties of SpecHandlers *)

\* the handler named has just been run a second time on the message
SecondInvocation(handler) ==
    /\ last.reactive
    /\ last.again
    /\ Subscribers(messages[last.m].type)[1] = handler

\* C6 as stated: a reactive handler invoked a second time with a message it
\* has processed publishes nothing.
C6_SecondInvocationPublishesNothing ==
    (last.reactive /\ last.again /\ llm.raises = None) => last.published = 0

\* the three handlers that test is_handled_by publish nothing the second
\* time
GuardedHandlersIdempotent ==
    (last.reactive /\ last.again /\ llm.raises = None
       /\ ~SecondInvocation("_on_critique"))
        => last.published = 0

-----------------------------------------------------------------------------
(* Properties of Spec: the two paths of the debate *)

\* analyze has just made its own critique_factor call (line 134)
ExplicitCritique ==
    last.op = "critique_factor" /\ ~last.reactive

\* the SUPPORT_ARGUMENT given to the last critique_factor call was handled by
\* the critic before: _on_support_argument ran critique_factor on it and
\* marked it
CritiquedBefore ==
    is_handled_by(handled_by, last.support_argument.id, CRITIC)

\* C20 as stated: critique_factor runs at most once for a SUPPORT_ARGUMENT
\* message; the explicit call of analyze never critiques a SUPPORT_ARGUMENT
\* the critic has already handled reactively.
C20_SupportArgumentCritiquedOnce ==
    ExplicitCritique => ~CritiquedBefore

\* the log holds a conceding REBUTTAL of a factor and, after it, a CRITIQUE
\* that a re-evaluation published for the same factor
ReevaluatedAfterConcession ==
    \E i, j \in 1 .. Len(messages) :
        /\ i < j
        /\ messages[i].type = "REBUTTAL"
        /\ messages[i].is_concession
        /\ messages[j].type = "CRITIQUE"
        /\ messages[j].is_update
        /\ messages[j].factor_id = messages[i].factor_id

\* every REBUTTAL carries is_concession as line 274 computes it from its text
ConcessionFlagFromText ==
    \A i \in 1 .. Len(messages) :
        messages[i].type = "REBUTTAL" =>
            messages[i].is_concession =
                ("CONCEDE" \in messages[i].rebuttal.words
                    \/ "QUOTE:" \notin messages[i].rebuttal.words)

\* C12 as stated: a rebuttal that contains CONCEDE or lacks QUOTE: is
\* published with is_concession true, and once a conceding REBUTTAL has been
\* published for a factor no CRITIQUE with is_update true is published for
\* that factor later in the session.
C12_ConcessionEndsReevaluation ==
    ConcessionFlagFromText /\ ~ReevaluatedAfterConcession

-----------------------------------------------------------------------------
(* Properties of Spec: what analyze returns *)

\* the stages of analyze that run inside its try block
Stages ==
    {"process", "support_factor", "critique_factor", "rebut", "synthesize",
     "generate_final_report", "check_synthesis_validity"}

\* C13: analyze never lets an exception reach its caller.  When a stage
\* raises, analyze ends with the result {success: false, error, factors,
\* all_messages} built from the bus as it is then; when analyze ends without
\* a stage having raised, the result has success true; before it ends there
\* is no result.
C13_AnalyzeReturnsResult ==
    /\ pc # "raised"
    /\ last.op = "except" =>
           /\ last.at \in Stages
           /\ pc = "failed"
           /\ result = [success |-> FALSE, error |-> last.at,
                        factors |-> factors, all_messages |-> messages]
    /\ pc = "failed" => last.op = "except"
    /\ pc = "done" => result.success /\ result.all_messages = messages
    /\ pc \notin {"failed", "done"} => result = Unassigned

\* with a progress callback that returns, analyze ends in a result as C13
\* says
ReturnsResultWhenCallbackReturns ==
    notify = "returns" => C13_AnalyzeReturnsResult

-----------------------------------------------------------------------------
(* Properties of Spec: the role policy *)

\* the role of the registered agent that the message names as its publisher
PublisherRole(message) ==
    registry.agents[message.publisher].capability.role

\* C15 as stated: with enforcement enabled, every message of the log whose
\* publisher is a registered agent has a type that the role table allows for
\* that agent's role.
C15_LogRespectsRoleTable ==
    enabled =>
        \A i \in 1 .. Len(messages) :
            Has(registry.agents, messages[i].publisher) =>
                messages[i].type \in ROLE_OUTPUT_TYPES[PublisherRole(messages[i])]

\* the messages that went through BaseAgent._publish (they carry agent_id)
\* have an allowed type, and no _publish of the session raised
\* PolicyViolation; the others are the FACTOR_DISCOVERED of the bus
PublishedByAgentsAllowed ==
    /\ \A i \in 1 .. Len(messages) :
           IF messages[i].agent_id # None
           THEN /\ messages[i].publisher = messages[i].agent_id
                /\ messages[i].type
                       \in ROLE_OUTPUT_TYPES[PublisherRole(messages[i])]
           ELSE /\ messages[i].type = "FACTOR_DISCOVERED"
                /\ messages[i].publisher = EXTRACTION
    /\ pc \notin {"idle", "raised"} /\ last.op \notin {"except", "analyze",
                                                        "analyze_integrity"}
           => ~last.violation

-----------------------------------------------------------------------------
(* SpecRegistry: an AgentRegistry under arbitrary calls *)

MaxIndexLen == 2

RegistryIds == {SUPPORTING, CRITIC}
RegistryNames == {"Supporting Agent", "Critic Agent"}
RegistryRoles == {"supporting", "critic"}
RegistryOutputTypes == SUBSET {"SUPPORT_ARGUMENT", "CRITIQUE"}

InitRegistry ==
    /\ assumption_tracker = EmptyTracker
    /\ db = EmptyDict
    /\ registry = EmptyRegistry
    /\ enabled = TRUE
    /\ subscriptions = EmptyDict
    /\ activations = <<>>
    /\ notify = "returns"
    /\ BusEmpty /\ AgentsFresh /\ OrchestratorIdle
    /\ resolutions = EmptyDict
    /\ checks = EmptyDict
    /\ input_len = 0
    /\ llm = None
    /\ claim = NoClaim
    /\ last = [op |-> "init"]

RegistryFrame ==
    UNCHANGED <<messages, factors, handled_by, resolutions, support_claims,
                critic_claims, rebuttals_issued, checks, pc, idx, support,
                critique, synthesis, result, input_len, llm, stack, claim,
                enabled, subscriptions, notify, db, assumption_tracker,
                   activations>>

\* the index lists stay within MaxIndexLen entries
RegistryRoom ==
    \A r \in AgentRole : Len(registry.agents_by_role[r]) <= MaxIndexLen

RegistryRegister ==
    \E agent_id \in RegistryIds, name \in RegistryNames,
       role \in RegistryRoles, output_types \in RegistryOutputTypes :
        LET call == register(registry, agent_id, name, role, output_types)
        IN  /\ RegistryRoom
            /\ registry' = call.registry
            /\ last' = [op |-> "register", agent_id |-> agent_id,
                        raised |-> call.raised, before |-> registry]
            /\ RegistryFrame

RegistryUnregister ==
    \E agent_id \in RegistryIds :
        LET call == unregister(registry, agent_id)
        IN  /\ registry' = call.registry
            /\ last' = [op |-> "unregister", agent_id |-> agent_id,
                        raised |-> FALSE, before |-> registry,
                        ret |-> call.ret]
            /\ RegistryFrame

RegistryClear ==
    /\ registry' = EmptyRegistry
    /\ last' = [op |-> "clear", agent_id |-> None, raised |-> FALSE,
                before |-> registry]
    /\ RegistryFrame

NextRegistry ==
    \/ RegistryRegister
    \/ RegistryUnregister
    \/ RegistryClear

SpecRegistry == InitRegistry /\ [][NextRegistry]_vars

-----------------------------------------------------------------------------
(* Properties of SpecRegistry *)

RegisterOfExisting ==
    /\ last.op = "register"
    /\ Has(last.before.agents, last.agent_id)

\* C16: AgentRegistry.register with an agent_id that is already registered
\* fails (ValueError) and leaves the registry as it was: the agent's record,
\* the role index and the output-type index are all unchanged.
C16_DuplicateRegisterRejected ==
    RegisterOfExisting => /\ last.raised
                          /\ registry = last.before

\* a register of the supporting agent's id while both agents are registered
C16_Witness ==
    /\ RegisterOfExisting
    /\ last.raised
    /\ last.agent_id = SUPPORTING
    /\ DOMAIN registry.agents = RegistryIds
    /\ registry.agents_by_role["supporting"] = <<SUPPORTING>>
    /\ registry.agents_by_role["critic"] = <<CRITIC>>

-----------------------------------------------------------------------------
(* SpecPolicy: a session, after which the policy engine may be switched    *)
(* and one of the five agents calls _publish with a message of any type    *)

\* RolePolicyEngine.enable
PolicyEnable ==
    /\ AnalyzeAt("done")
    /\ ~enabled
    /\ enabled' = TRUE
    /\ last' = [op |-> "enable", reactive |-> FALSE]
    /\ UNCHANGED <<messages, factors, handled_by, resolutions, support_claims,
                   critic_claims, rebuttals_issued, checks, pc, idx, support,
                   critique, synthesis, result, input_len, llm, stack, claim,
                   registry, subscriptions, notify, db, assumption_tracker,
                   activations>>

\* RolePolicyEngine.disable
PolicyDisable ==
    /\ AnalyzeAt("done")
    /\ enabled
    /\ enabled' = FALSE
    /\ last' = [op |-> "disable", reactive |-> FALSE]
    /\ UNCHANGED <<messages, factors, handled_by, resolutions, support_claims,
                   critic_claims, rebuttals_issued, checks, pc, idx, support,
                   critique, synthesis, result, input_len, llm, stack, claim,
                   registry, subscriptions, notify, db, assumption_tracker,
                   activations>>

\* the factor lists an agent may publish: the one of the session again, or
\* two factors of its own
PublishedLists ==
    {factors, annotate(<<PlainRaw("f1"), PlainRaw("f2")>>)}

\* the message an agent hands to _publish: a dict with the type alone (or
\* without one), a FACTOR_LIST with a list of factors, or a
\* FACTOR_DISCOVERED with the first factor of the session
PublishedMessage(type, fs) ==
    IF type = "FACTOR_LIST" THEN [Msg(type) EXCEPT !.factors = fs]
    ELSE IF type = "FACTOR_DISCOVERED"
    THEN [Msg(type) EXCEPT !.factor = factors[1],
                           !.factor_id = factors[1].id]
    ELSE Msg(type)

\* BaseAgent._publish called by an agent outside the pipeline's own steps
AgentPublish ==
    /\ AnalyzeAt("done")
    /\ Room
    /\ \E agent_id \in AgentIds, type \in MessageType \cup {None},
          fs \in PublishedLists :
         /\ type = "FACTOR_DISCOVERED" => factors # <<>>
         /\ type # "FACTOR_LIST" => fs = factors
         /\ LET message == PublishedMessage(type, fs)
                w == agent_publish(World, message, agent_id)
            IN  /\ Becomes(w)
                /\ last' = [op |-> "_publish", agent_id |-> agent_id,
                            type |-> type, message |-> message,
                            reactive |-> FALSE, violation |-> w.violation,
                            before |-> World]
    /\ pc' = "published"
    /\ UNCHANGED <<checks, idx, support, critique, synthesis, result,
                   input_len, llm, registry, enabled,
                   subscriptions, notify, db, assumption_tracker,
                   activations, claim>>

\* the sessions before the call: the model finds evidence, its critique
\* names ACCEPTED or REJECTED and no call of it raises
InitPolicy ==
    /\ Init
    /\ notify = "returns"
    /\ llm.raises = None
    /\ ~llm.support.insufficient
    /\ llm.critique.token \in {"ACCEPTED", "REJECTED"}

NextPolicy ==
    \/ Next
    \/ PolicyEnable
    \/ PolicyDisable
    \/ AgentPublish

SpecPolicy == InitPolicy /\ [][NextPolicy]_vars

-----------------------------------------------------------------------------
(* Properties of SpecPolicy *)

PublishCalled == last.op = "_publish"

\* the type is one the role table gives to the role the agent registered with
AllowedType ==
    /\ last.type # None
    /\ last.type \in ROLE_OUTPUT_TYPES[
                         registry.agents[last.agent_id].capability.role]

DisallowedType ==
    /\ last.type # None
    /\ last.type \notin ROLE_OUTPUT_TYPES[
                            registry.agents[last.agent_id].capability.role]

\* the state the bus is in when publish has logged the message and created
\* the tasks of its subscribers
PublishedNormally ==
    /\ ~last.violation
    /\ messages = Append(last.before.messages,
                         [last.message EXCEPT
                             !.id = Len(last.before.messages),
                             !.publisher = last.agent_id,
                             !.agent_id = last.agent_id])
    /\ \A i \in 1 .. Len(Subscribers(last.type)) :
           \E k \in 1 .. Len(stack) :
               /\ stack[k].kind = "task"
               /\ stack[k].handler = Subscribers(last.type)[i]
               /\ stack[k].m = Len(messages)

\* C14: with enforcement enabled, a registered agent's _publish of a message
\* whose type its role may not publish raises PolicyViolation before the bus
\* is touched: the log, the factor list and the handled map are as before and
\* no subscriber is invoked; a message of an allowed type is published.
C14_DisallowedTypeNeverReachesBus ==
    PublishCalled /\ enabled =>
        /\ DisallowedType =>
               /\ last.violation
               /\ messages = last.before.messages
               /\ factors = last.before.factors
               /\ handled_by = last.before.handled_by
               /\ stack = <<>>
        /\ AllowedType => PublishedNormally

\* the critic tries to publish a SUPPORT_ARGUMENT, which has a subscriber,
\* on a bus that holds the messages of a session
C14_Witness ==
    /\ PublishCalled /\ enabled
    /\ last.agent_id = CRITIC
    /\ last.type = "SUPPORT_ARGUMENT"
    /\ last.violation
    /\ Len(messages) > 3
    /\ handled_by # EmptyDict

\* the supporting agent publishes a SUPPORT_ARGUMENT and the critic's
\* handler is about to run
AllowedTypePublished ==
    /\ PublishCalled /\ enabled
    /\ last.agent_id = SUPPORTING
    /\ last.type = "SUPPORT_ARGUMENT"
    /\ PublishedNormally
    /\ stack # <<>>

\* with enforcement off the same call publishes
DisabledPolicyPublishes ==
    PublishCalled /\ ~enabled => PublishedNormally

-----------------------------------------------------------------------------
(* Properties of the FACTOR_LIST fan-out, over SpecPolicy *)

IsFactorList(i) == messages[i].type = "FACTOR_LIST"

\* a FACTOR_DISCOVERED the bus published itself: _publish did not stamp it
BusDiscovered(message) ==
    message.type = "FACTOR_DISCOVERED" /\ message.agent_id = None

\* the index of the next FACTOR_LIST after the i-th message, or the end
SegmentEnd(i) ==
    IF \E j \in (i + 1) .. Len(messages) : IsFactorList(j)
    THEN (CHOOSE j \in (i + 1) .. Len(messages) :
              /\ IsFactorList(j)
              /\ \A k \in (i + 1) .. (j - 1) : ~IsFactorList(k)) - 1
    ELSE Len(messages)

DiscoveredAfter(i) ==
    SelectSeq(SubSeq(messages, i + 1, SegmentEnd(i)), BusDiscovered)

\* the publish of the last FACTOR_LIST is still in its loop
FanoutRunning == \E k \in 1 .. Len(stack) : stack[k].kind = "fanout"

\* how many factors the loop has published so far
FanoutDone ==
    (CHOOSE k \in 1 .. Len(stack) : stack[k].kind = "fanout") - 1

Published(i) ==
    IF SegmentEnd(i) = Len(messages) /\ FanoutRunning
    THEN stack[FanoutDone + 1].m - 1
    ELSE Len(messages[i].factors)

\* C17: the publish of a FACTOR_LIST with factors f1..fk stores that list as
\* the bus's factor list and publishes k FACTOR_DISCOVERED messages, one per
\* factor in list order, each with the factor, its id and the publisher of the
\* list; while the loop runs the first ones are logged, and once the publish
\* has returned all k are.
C17_FactorListFansOut ==
    \A i \in 1 .. Len(messages) :
        IsFactorList(i) =>
            LET fs == messages[i].factors
                D == DiscoveredAfter(i)
            IN  /\ SegmentEnd(i) = Len(messages) => factors = fs
                /\ Len(D) = Published(i)
                /\ \A j \in 1 .. Len(D) :
                       /\ D[j].factor = fs[j]
                       /\ D[j].factor_id = fs[j].id
                       /\ D[j].publisher = messages[i].publisher

\* a list of two factors published by the critic with enforcement off, after
\* the session's own list of one: the FACTOR_DISCOVERED of each list are
\* logged and the second publish has returned
C17_Witness ==
    /\ pc = "published"
    /\ stack = <<>>
    /\ Len(factors) = 2
    /\ \E i, j \in 1 .. Len(messages) :
           /\ i < j
           /\ IsFactorList(i) /\ messages[i].publisher = EXTRACTION
           /\ IsFactorList(j) /\ messages[j].publisher = CRITIC
           /\ Len(DiscoveredAfter(i)) = 1
           /\ Len(DiscoveredAfter(j)) = 2
           /\ DiscoveredAfter(j)[2].publisher = CRITIC

-----------------------------------------------------------------------------
(* Properties of SynthesizerAgent.synthesize, over Spec *)

Synthesized == last.op = "synthesize" /\ last.published = 1

\* the debates a text is made of
DebatesIn(text) == {text[i] : i \in 1 .. Len(text)}

\* the support, critique and rebuttal content of the debate are the last
\* messages of the log for the factor
AssembledFor(debate, factor_id) ==
    /\ debate.factor_id = factor_id
    /\ debate = debate_of(SubSeq(messages, 1, Len(messages) - 1), factor_id)

\* C11: in synthesize, the assembled debate of every factor is in the
\* rejected-debates text exactly when the tracker marks the factor REJECTED
\* at that time, and in the primary debate text otherwise; no factor's debate
\* is in both, and the primary text holds nothing of a REJECTED factor.
C11_RejectedDebatesKeptApart ==
    Synthesized =>
        \A i \in 1 .. Len(factors) :
            LET fid == factors[i].id
                isRejected == /\ Has(resolutions, fid)
                              /\ resolutions[fid].status = "REJECTED"
                primary == {d \in DebatesIn(synthesis.debate_summary) :
                               d.factor_id = fid}
                apart == {d \in DebatesIn(synthesis.rejected_debates) :
                             d.factor_id = fid}
            IN  /\ isRejected => /\ primary = {}
                                 /\ \E d \in apart : AssembledFor(d, fid)
                /\ ~isRejected => /\ apart = {}
                                  /\ \E d \in primary : AssembledFor(d, fid)
                /\ Cardinality(primary \cup apart) = 1

\* two factors with a full debate each, the second one REJECTED and the
\* first one not
C11_Witness ==
    /\ Synthesized
    /\ Len(factors) = 2
    /\ factors[1].id # factors[2].id
    /\ Has(resolutions, factors[1].id)
    /\ resolutions[factors[1].id].status = "ACCEPTED"
    /\ Has(resolutions, factors[2].id)
    /\ resolutions[factors[2].id].status = "REJECTED"
    /\ Len(synthesis.debate_summary) = 1
    /\ Len(synthesis.rejected_debates) = 1
    /\ synthesis.rejected_debates[1].support >= 0
    /\ synthesis.rejected_debates[1].critique >= 0
    /\ synthesis.rejected_debates[1].rebuttal >= 0
    /\ synthesis.debate_summary[1].critique >= 0

-----------------------------------------------------------------------------
(* SpecPublish: MessageBus.publish with any handlers subscribed.  A handler *)
(* is known by what the bus can see of it: whether it is a coroutine      *)
(* function, whether it raises, and the type of the message it publishes   *)
(* (and awaits) before it ends, if any.  activations holds the publish     *)
(* calls and the handler invocations; parent is the index of the handler   *)
(* that awaits a publish, or of the publish that invoked a handler.        *)

MaxHandlers == 2

Handler(async, raises, publishes) ==
    [async |-> async, raises |-> raises, publishes |-> publishes]

NoHandler == Handler(FALSE, FALSE, None)

\* the types published in SpecPublish, and the type a handler of each may
\* publish in turn
PublishTypes == {"SUPPORT_ARGUMENT", "CRITIQUE"}
Reply(type) == IF type = "SUPPORT_ARGUMENT" THEN "CRITIQUE" ELSE "REBUTTAL"

\* a handler that raises after the publish it awaited is tried on the
\* first type only
HandlersOf(type) ==
    {Handler(a, r, None) : a \in BOOLEAN, r \in BOOLEAN}
        \cup {Handler(TRUE, r, Reply(type)) :
                  r \in {FALSE, type = "SUPPORT_ARGUMENT"}}

\* the handlers subscribed to the first type: any list of up to MaxHandlers
HandlerLists ==
    UNION {[1 .. n -> HandlersOf("SUPPORT_ARGUMENT")] :
              n \in 0 .. MaxHandlers}

\* the handlers subscribed to the type of the replies: none, any single one,
\* or a coroutine that raises followed by a plain function
ReplyHandlerLists ==
    {<<>>, <<Handler(TRUE, TRUE, None), Handler(FALSE, FALSE, None)>>}
        \cup {<<h>> : h \in HandlersOf("CRITIQUE")}

Done == {"returned", "raised"}

\* the subscriber loop of lines 89-98 stops at the first synchronous handler
\* that raises, and the exception leaves publish
notify_subscribers_unguarded(handlers, parent, m) ==
    LET bad == {i \in 1 .. Len(handlers) :
                   ~handlers[i].async /\ handlers[i].raises}
        stop == IF bad = {} THEN Len(handlers)
                ELSE CHOOSE i \in bad : \A j \in bad : i <= j
    IN  [raised |-> bad # {},
         children |->
             [i \in 1 .. stop |->
                 [kind |-> "handler", parent |-> parent, m |-> m,
                  h |-> handlers[i],
                  state |-> IF handlers[i].async THEN "created"
                            ELSE IF handlers[i].raises THEN "raised"
                            ELSE "returned"]]]

\* lines 89-98: a task is created for each coroutine function; any other
\* handler is called at once, inside try/except
notify_subscribers(handlers, parent, m) ==
    [raised |-> FALSE,
     children |->
         [i \in 1 .. Len(handlers) |->
             [kind |-> "handler", parent |-> parent, m |-> m,
              h |-> handlers[i],
              state |-> IF handlers[i].async THEN "created"
                        ELSE IF handlers[i].raises THEN "raised"
                        ELSE "returned"]]]

\* publish, from its call to the await of line 102
started_publish(acts, log, type, parent) ==
    LET p == Len(acts) + 1
        n == notify_subscribers(Subscribers(type), p, Len(log) + 1)
    IN  Append(acts, [kind |-> "publish", parent |-> parent,
                      m |-> Len(log) + 1, h |-> NoHandler,
                      state |-> IF n.raised THEN "raised" ELSE "waiting"])
            \o n.children

\* publish goes on without waiting for its tasks
gathered_nowait(acts, p) == TRUE

\* lines 101-102: gather(*tasks, return_exceptions=True) is over when every
\* task has ended, whether by a return or by an exception
gathered(acts, p) ==
    \A i \in 1 .. Len(acts) :
        acts[i].kind = "handler" /\ acts[i].parent = p =>
            acts[i].state \in Done

InitPublish ==
    /\ assumption_tracker = EmptyTracker
    /\ db = EmptyDict
    /\ registry = OrchestratorRegistry
    /\ enabled = TRUE
    /\ subscriptions \in
           {[t \in PublishTypes |-> IF t = "CRITIQUE" THEN c ELSE s] :
               s \in HandlerLists, c \in ReplyHandlerLists}
    /\ activations = <<>>
    /\ notify = "returns"
    /\ BusEmpty /\ AgentsFresh /\ OrchestratorIdle
    /\ resolutions = EmptyDict
    /\ checks = EmptyDict
    /\ input_len = 0
    /\ llm = None
    /\ claim = NoClaim
    /\ last = [op |-> "init"]

PublishFrame ==
    UNCHANGED <<factors, handled_by, resolutions, support_claims,
                critic_claims, rebuttals_issued, checks, pc, idx, support,
                critique, synthesis, result, input_len, llm, stack, claim,
                registry, enabled, subscriptions, notify, db, assumption_tracker, last>>

\* a caller outside the bus awaits publish(message)
PublishCall ==
    /\ activations = <<>>
    /\ \E type \in PublishTypes :
           /\ messages' = publish(World, Msg(type), None).messages
           /\ activations' = started_publish(activations, messages, type, 0)
    /\ PublishFrame

\* the event loop runs a created task, the oldest first (create_task puts
\* the task at the end of the loop's ready queue): the handler ends, or
\* publishes its own message and awaits that publish
HandlerRuns ==
    \E i \in 1 .. Len(activations) :
        LET a == activations[i] IN
        /\ a.kind = "handler"
        /\ a.state = "created"
        /\ \A j \in 1 .. (i - 1) : activations[j].state # "created"
        /\ IF a.h.publishes = None
           THEN /\ activations' =
                       [activations EXCEPT
                           ![i].state = IF a.h.raises THEN "raised"
                                        ELSE "returned"]
                /\ UNCHANGED messages
           ELSE /\ messages' =
                       publish(World, Msg(a.h.publishes), None).messages
                /\ activations' =
                       started_publish(
                           [activations EXCEPT ![i].state = "awaiting"],
                           messages, a.h.publishes, i)
        /\ PublishFrame

\* the publish a handler awaits is over: the handler ends
HandlerResumes ==
    \E i \in 1 .. Len(activations), p \in 1 .. Len(activations) :
        /\ activations[i].kind = "handler"
        /\ activations[i].state = "awaiting"
        /\ activations[p].kind = "publish"
        /\ activations[p].parent = i
        /\ activations[p].state \in Done
        /\ activations' =
               [activations EXCEPT
                   ![i].state = IF \/ activations[i].h.raises
                                   \/ activations[p].state = "raised"
                                THEN "raised" ELSE "returned"]
        /\ UNCHANGED messages
        /\ PublishFrame

\* the await of line 102 is over (or there was no task): publish returns
PublishReturns ==
    \E p \in 1 .. Len(activations) :
        /\ activations[p].kind = "publish"
        /\ activations[p].state = "waiting"
        /\ gathered(activations, p)
        /\ activations' = [activations EXCEPT ![p].state = "returned"]
        /\ UNCHANGED messages
        /\ PublishFrame

NextPublish ==
    \/ PublishCall
    \/ HandlerRuns
    \/ HandlerResumes
    \/ PublishReturns

SpecPublish == InitPublish /\ [][NextPublish]_vars

-----------------------------------------------------------------------------
(* Properties of SpecPublish *)

IsPublish(p) == activations[p].kind = "publish"

\* the invocations of the handlers subscribed to the message of publish p
InvokedBy(p) ==
    {i \in 1 .. Len(activations) :
        activations[i].kind = "handler" /\ activations[i].parent = p}

\* every subscriber of the type was invoked with the message, in order
AllInvoked(p) ==
    LET type == messages[activations[p].m].type IN
    /\ Cardinality(InvokedBy(p)) = Len(Subscribers(type))
    /\ \A k \in 1 .. Len(Subscribers(type)) :
           /\ activations[p + k].parent = p
           /\ activations[p + k].h = Subscribers(type)[k]
           /\ activations[p + k].m = activations[p].m
           /\ activations[p + k].state # "created"

\* C18: when a handler subscribed to a message's type raises during publish,
\* every other handler of the type is still invoked with the message, the
\* message stays in the log and publish does not raise, whether the handlers
\* are synchronous or asynchronous.
C18_HandlerFailureIsolated ==
    \A p \in 1 .. Len(activations) :
        IsPublish(p) =>
            /\ activations[p].state # "raised"
            /\ activations[p].m <= Len(messages)
            /\ activations[p].state = "returned" => AllInvoked(p)
            /\ \A i \in InvokedBy(p) :
                   ~activations[i].h.async => activations[i].state \in Done

\* a publish with a synchronous handler that raised followed by an
\* asynchronous one that published; the nested publish had an asynchronous
\* handler that raised followed by a synchronous one; both have returned
C18_Witness ==
    /\ Len(activations) = 6
    /\ activations[1].state = "returned"
    /\ ~activations[2].h.async /\ activations[2].state = "raised"
    /\ activations[3].h.async /\ activations[3].state = "returned"
    /\ activations[4].kind = "publish" /\ activations[4].parent = 3
    /\ activations[4].state = "returned"
    /\ activations[5].h.async /\ activations[5].state = "raised"
    /\ ~activations[6].h.async /\ activations[6].state = "returned"
    /\ Len(messages) = 2

RECURSIVE StartedBy(_, _)
\* whether activation i was started, directly or not, by publish p
StartedBy(i, p) ==
    /\ i > p
    /\ activations[i].parent # 0
    /\ \/ activations[i].parent = p
       \/ StartedBy(activations[i].parent, p)

\* C19: publish returns only after every subscriber callback for its
\* message has completed, those of the messages the subscribers publish in
\* turn included: once it has returned, no handler it started is running.
C19_PublishAwaitsAllCallbacks ==
    \A p \in 1 .. Len(activations) :
        IsPublish(p) /\ activations[p].state = "returned" =>
            \A i \in 1 .. Len(activations) :
                StartedBy(i, p) => activations[i].state \in Done

\* the outer publish has returned after two asynchronous handlers, each of
\* which published a message that had an asynchronous handler of its own
C19_Witness ==
    /\ activations # <<>>
    /\ activations[1].state = "returned"
    /\ Cardinality(InvokedBy(1)) = 2
    /\ \A i \in InvokedBy(1) :
           /\ activations[i].h.async
           /\ \E q \in 1 .. Len(activations) :
                  /\ IsPublish(q) /\ activations[q].parent = i
                  /\ \E j \in InvokedBy(q) : activations[j].h.async
    /\ Len(messages) = 3

-----------------------------------------------------------------------------
(* SpecCritic: the debate of one factor seen from the CriticAgent.  The     *)
(* SUPPORT_ARGUMENT is published by support_factor, the critic answers it   *)
(* reactively and on the explicit call of analyze, and REBUTTALs with any   *)
(* text are published on the bus before the explicit call; the supporting  *)
(* agent's own handlers are not subscribed.  Before the debate the tracker  *)
(* is given any resolutions.                                                *)

MaxRebuttals == 2      \* REBUTTALs published for the factor

\* CriticAgent._setup_subscriptions
CriticSubscriptions ==
    [t \in {"SUPPORT_ARGUMENT", "REBUTTAL"} |-> AgentSubscriptions[t]]

CriticFactors ==
    {Factor("f1", {}, FALSE, TRUE),
     Factor("f1", {"because"}, FALSE, TRUE),
     Factor("f1", {"because"}, TRUE, TRUE),
     Factor("f1", {"because"}, FALSE, FALSE),
     Factor("f1", {}, TRUE, FALSE)}

\* answers to the critique prompt beside CritiqueResponses: keyword
\* combinations without a token, and PARTIALLY_ACCEPTED answers with a
\* SUB-CLAIMS: block
CriticResponses ==
    CritiqueResponses \cup
    {CritiqueResponse(None, {"REJECT", "PARTIALLY", "ACCEPT"}, 0),
     CritiqueResponse(None, {"INVALID", "SOME"}, 0),
     CritiqueResponse(None, {"SOME", "ACCEPT"}, 0),
     CritiqueResponse(None, {"ACCEPT"}, 0),
     CritiqueResponse(None, {"SOME", "CAUSAL"}, 0),
     CritiqueResponse("PARTIALLY_ACCEPTED", {"PARTIALLY", "ACCEPT", "CAUSAL"}, 0),
     [CritiqueResponse("PARTIALLY_ACCEPTED", {"PARTIALLY", "ACCEPT"}, 0)
         EXCEPT !.subclaims = <<[claim |-> "first", status |-> "ACCEPTED"]>>],
     [CritiqueResponse("PARTIALLY_ACCEPTED", {"PARTIALLY", "ACCEPT", "REJECT"}, 2)
         EXCEPT !.subclaims = <<[claim |-> "first", status |-> "ACCEPTED"],
                                [claim |-> "second", status |-> "REJECTED"]>>]}

CriticReevalResponses == ReevalResponses \cup {"PARTIALLY_ACCEPTED"}

\* the REBUTTAL messages published: those rebut builds, whose is_concession
\* follows from the text, and two published with the flag unset for a text
\* that holds no quote
PublishedRebuttals ==
    {[Msg("REBUTTAL") EXCEPT !.factor_id = "f1", !.rebuttal = t,
                             !.is_concession = is_concession(t)] :
        t \in RebuttalResponses}
    \cup
    {[Msg("REBUTTAL") EXCEPT !.factor_id = "f1", !.rebuttal = t] :
        t \in {RebuttalText(120, {}), RebuttalText(200, {})}}

InitCritic ==
    /\ assumption_tracker = EmptyTracker
    /\ db = EmptyDict
    /\ registry = OrchestratorRegistry /\ enabled = TRUE
    /\ subscriptions = CriticSubscriptions
    /\ activations = <<>> /\ notify = "returns"
    /\ AgentsFresh
    /\ handled_by = EmptyDict
    /\ resolutions = EmptyDict
    /\ checks = EmptyDict
    /\ claim = NoClaim
    /\ synthesis = Unassigned /\ result = Unassigned
    /\ critique = Unassigned /\ support = Unassigned
    /\ stack = <<>>
    /\ pc = "support_factor" /\ idx = 1
    /\ input_len \in InputLens
    /\ llm \in {LLM([insufficient |-> FALSE], c, RebuttalText(0, {}), e,
                       None) :
                   c \in CriticResponses, e \in CriticReevalResponses}
    /\ \E f \in CriticFactors :
           /\ factors = <<f>>
           /\ messages =
                  <<[Msg("FACTOR_LIST") EXCEPT
                        !.id = 0, !.publisher = EXTRACTION,
                        !.agent_id = EXTRACTION, !.factors = <<f>>],
                    [Msg("FACTOR_DISCOVERED") EXCEPT
                        !.id = 1, !.publisher = EXTRACTION,
                        !.factor = f, !.factor_id = f.id]>>
    /\ last = [op |-> "init", reactive |-> FALSE]

\* a REBUTTAL is published for the factor
CriticRebuttal ==
    /\ AnalyzeAt("critique_factor")
    /\ Cardinality({i \in 1 .. Len(messages) : messages[i].type = "REBUTTAL"})
           < MaxRebuttals
    /\ \E r \in PublishedRebuttals :
           LET w == publish(World, [r EXCEPT !.agent_id = SUPPORTING],
                            SUPPORTING)
           IN  /\ Becomes(w)
               /\ last' = Called("publish", Len(w.messages), w)
    /\ HandlerFrame

\* ResolutionTracker.set_resolution called with any status and sub_claims
TrackerSetResolution ==
    /\ AnalyzeAt("support_factor")
    /\ \E status \in ResolutionStatus, sub_claims \in {<<>>, GenericSubClaims} :
           LET t == set_resolution(resolutions, "f1", status, "given",
                                   sub_claims, CRITIC)
           IN  /\ resolutions' = t.resolutions
               /\ last' = [op |-> "set_resolution", reactive |-> FALSE,
                           status |-> status, sub_claims |-> sub_claims,
                           raised |-> t.raised]
    /\ UNCHANGED <<messages, factors, handled_by, support_claims,
                   critic_claims, rebuttals_issued, checks, pc, idx, support,
                   critique, synthesis, result, input_len, llm, registry, enabled,
                   subscriptions, notify, db, assumption_tracker,
                   activations, stack,
                   claim>>

NextCritic ==
    \/ SupportFactor
    \/ OnSupportArgument
    \/ MarkHandled
    \/ CritiqueFactor
    \/ CriticRebuttal
    \/ OnRebuttal
    \/ TrackerSetResolution

SpecCritic == InitCritic /\ [][NextCritic]_vars

-----------------------------------------------------------------------------
(* Properties of the CriticAgent, checked under SpecCritic *)

\* critique_factor was called by the last step and returned
Critiqued == last.op = "critique_factor" /\ ~last.raised

\* the log critique_factor read: what was there before its CRITIQUE
LogRead == SubSeq(messages, 1, Len(messages) - last.published)

RebuttalsRead ==
    {i \in 1 .. Len(LogRead) :
        LogRead[i].type = "REBUTTAL" /\ LogRead[i].factor_id = last.factor.id}

ConcededBefore == \E i \in RebuttalsRead : LogRead[i].is_concession

Ungrounded == ~last.factor.validation.is_grounded

Circular == last.factor.validation.is_circular

\* the entry of the tracker and the CRITIQUE the call left
Recorded == resolutions[last.factor.id]

CritiqueSent == messages[Len(messages)]

ResolvedAs(resolution) ==
    /\ Critiqued
    /\ last.published = 1
    /\ Recorded.status = resolution
    /\ CritiqueSent.type = "CRITIQUE"
    /\ CritiqueSent.factor_id = last.factor.id
    /\ CritiqueSent.resolution = resolution

JustifiedBy(justification) ==
    /\ Recorded.justification = justification
    /\ CritiqueSent.justification = justification

\* C24: critique_factor resolves REJECTED, whatever the model answered,
\* whenever the factor is ungrounded or the log already holds a conceding
\* REBUTTAL for it; the justification names the concession before the
\* circularity and the circularity before the missing grounding
C24_UngroundedOrConcededRejected ==
    (last.op = "critique_factor" /\ (Ungrounded \/ ConcededBefore)) =>
        /\ ResolvedAs("REJECTED")
        /\ JustifiedBy(IF ConcededBefore THEN JustConceded
                       ELSE IF Circular THEN JustCircular
                       ELSE JustUngrounded)

\* all three conditions hold and the model answered ACCEPTED
C24_Witness ==
    /\ last.op = "critique_factor"
    /\ Ungrounded /\ Circular /\ ConcededBefore
    /\ Cardinality(RebuttalsRead) = 2
    /\ last.response.token = "ACCEPTED"
    /\ ResolvedAs("REJECTED")
    /\ JustifiedBy(JustConceded)

\* neither rule 1 (deterministic rejection) nor rule 2 (small-context
\* auto-accept) applies to the call
ModelVerdictApplies ==
    /\ last.op = "critique_factor"
    /\ ~ConcededBefore /\ ~Ungrounded /\ ~Circular
    /\ ~(/\ last.factor.words \cap CausalKeywords = {}
         /\ last.context_size < SmallContextLimit)

NoToken == last.response.token = None

KeywordVerdict(words) ==
    IF words \cap {"REJECT", "INVALID"} # {} THEN "REJECTED"
    ELSE IF words \cap {"PARTIALLY", "SOME"} # {} THEN "PARTIALLY_ACCEPTED"
    ELSE IF "ACCEPT" \in words THEN "ACCEPTED"
    ELSE "REJECTED"

MentionsCausality == last.response.words \cap {"CAUSAL", "CAUSALITY"} # {}

\* a REBUTTAL that quotes and names no mechanism
Requotes(message) ==
    /\ "QUOTE:" \in message.rebuttal.words
    /\ message.rebuttal.words \cap MechanismTerms = {}

RequotedAny == \E i \in RebuttalsRead : Requotes(LogRead[i])

\* C25 as stated: without a RESOLUTION: token under the model-verdict rule,
\* the resolution is the one the keyword priority gives
C25_KeywordPriorityDecides ==
    (ModelVerdictApplies /\ NoToken) =>
        ResolvedAs(KeywordVerdict(last.response.words))

\* C25: without a RESOLUTION: token under the model-verdict rule, the
\* resolution is the one the keyword priority gives, or REJECTED; it is the
\* keyword one unless the response mentions causality and a REBUTTAL of the
\* factor quotes without a mechanism; with no keyword either it is REJECTED
C25_KeywordPriorityUnlessRequoted ==
    (ModelVerdictApplies /\ NoToken) =>
        /\ \/ ResolvedAs(KeywordVerdict(last.response.words))
           \/ ResolvedAs("REJECTED")
        /\ ~(MentionsCausality /\ RequotedAny) =>
               ResolvedAs(KeywordVerdict(last.response.words))
        /\ last.response.words
               \cap {"REJECT", "INVALID", "PARTIALLY", "SOME", "ACCEPT"} = {}
               => ResolvedAs("REJECTED")

\* SOME and ACCEPT without a token, after a rebuttal: PARTIALLY_ACCEPTED
C25_Witness ==
    /\ ModelVerdictApplies /\ NoToken
    /\ last.response.words = {"SOME", "ACCEPT"}
    /\ RebuttalsRead # {}
    /\ ResolvedAs("PARTIALLY_ACCEPTED")

\* C26: under the model-verdict rule, a response that mentions causality is
\* resolved REJECTED whenever any REBUTTAL of the factor in the log quotes
\* without a mechanism keyword, whatever the token and the other rebuttals
C26_AnyRequotingRebuttalForcesRejected ==
    (ModelVerdictApplies /\ MentionsCausality /\ RequotedAny) =>
        ResolvedAs("REJECTED")

\* C27: a PARTIALLY_ACCEPTED resolution records, in the tracker and in the
\* CRITIQUE, exactly the pairs of the response's SUB-CLAIMS: block; the two
\* generic sub-claims are recorded only for a response without the block
C27_SubClaimsFromBlock ==
    (Critiqued /\ Recorded.status = "PARTIALLY_ACCEPTED") =>
        /\ last.response.subclaims # <<>> =>
               /\ Recorded.sub_claims = last.response.subclaims
               /\ CritiqueSent.sub_claims = last.response.subclaims
        /\ Recorded.sub_claims = GenericSubClaims =>
               last.response.subclaims = <<>>

PartialHasSubClaims ==
    \A fid \in DOMAIN resolutions :
        resolutions[fid].status = "PARTIALLY_ACCEPTED" =>
            Len(resolutions[fid].sub_claims) >= 1

\* set_resolution was called with PARTIALLY_ACCEPTED and no sub_claims
SetResolutionWithout ==
    /\ last.op = "set_resolution"
    /\ last.status = "PARTIALLY_ACCEPTED"
    /\ last.sub_claims = <<>>

\* C28: at every point every PARTIALLY_ACCEPTED entry of the tracker has a
\* sub-claim; set_resolution with PARTIALLY_ACCEPTED and no sub_claims
\* raises and leaves the tracker as it was; critique_factor never fails in
\* set_resolution and its PARTIALLY_ACCEPTED CRITIQUE carries a sub-claim
C28_PartiallyAcceptedHasSubClaims ==
    /\ [](/\ PartialHasSubClaims
          /\ SetResolutionWithout => last.raised
          /\ last.op = "critique_factor" => ~last.raised
          /\ (Critiqued /\ CritiqueSent.resolution = "PARTIALLY_ACCEPTED") =>
                 Len(CritiqueSent.sub_claims) >= 1)
    /\ [][SetResolutionWithout' => resolutions' = resolutions]_vars

\* the call is refused on a tracker that holds a PARTIALLY_ACCEPTED entry
C28_Witness ==
    /\ SetResolutionWithout /\ last.raised
    /\ Has(resolutions, "f1")
    /\ resolutions["f1"].status = "PARTIALLY_ACCEPTED"
    /\ resolutions["f1"].sub_claims = GenericSubClaims

\* the REBUTTAL _on_rebuttal was given by the last step
Delivered == messages[last.m]

StrongRebuttal ==
    /\ Delivered.rebuttal.len > 50
    /\ ~Delivered.is_concession
    /\ \/ Delivered.rebuttal.words \cap {"EVIDENCE", "DOCUMENT", "QUOTE:"} # {}
       \/ Delivered.rebuttal.len > 150

\* C29: _on_rebuttal re-evaluates only a strong rebuttal, and a CRITIQUE
\* with is_update is published exactly when the re-evaluation's answer names
\* ACCEPTED, PARTIALLY_ACCEPTED or REJECTED; otherwise nothing is published
C29_ReevaluationOnlyForStrongRebuttal ==
    last.op = "_on_rebuttal" =>
        /\ last.reevaluated => StrongRebuttal
        /\ last.published \in {0, 1}
        /\ last.published = 1 <=>
               /\ last.reevaluated
               /\ llm.reeval \in {"ACCEPTED", "PARTIALLY_ACCEPTED", "REJECTED"}
        /\ last.published = 1 =>
               /\ CritiqueSent.type = "CRITIQUE"
               /\ CritiqueSent.is_update
               /\ CritiqueSent.factor_id = Delivered.factor_id
               /\ CritiqueSent.verdict = llm.reeval

\* a long rebuttal without any evidence word is re-evaluated and answered
C29_Witness ==
    /\ last.op = "_on_rebuttal"
    /\ Delivered.rebuttal = RebuttalText(200, {})
    /\ last.reevaluated
    /\ llm.reeval = "PARTIALLY_ACCEPTED"
    /\ last.published = 1
    /\ CritiqueSent.is_update

-----------------------------------------------------------------------------
(* Rebuttals per CRITIQUE, checked under Spec *)

\* line 138 called rebut with the CRITIQUE analyze holds, and it published
RebutCalled == last.op = "rebut" /\ ~last.reactive /\ last.published = 1

\* the place in the log of the CRITIQUE passed to rebut at line 138
CritiquePassed == critique.id + 1

\* _on_critique, the task publish starts for CRITIQUE c before anything else
\* is logged, called rebut for it: its REBUTTAL is the message that follows c
RebuttedByHandler(c) ==
    /\ c + 1 <= Len(messages)
    /\ messages[c + 1].type = "REBUTTAL"
    /\ messages[c + 1].factor_id = messages[c].factor_id
    /\ messages[c + 1].publisher = SUPPORTING

\* C23: in analyze rebut is invoked at most once for each CRITIQUE: the
\* CRITIQUE passed to rebut at line 138 was not answered by _on_critique
C23_OneRebuttalPerCritique ==
    RebutCalled =>
        ~(/\ CritiquePassed + 1 < Len(messages)
          /\ RebuttedByHandler(CritiquePassed))

-----------------------------------------------------------------------------
(* agents/final_decision_agent.py: _build_debate_log.  SpecDebateLog gives  *)
(* it one factor and any short log of messages about that factor.           *)

MaxLogLen == 3         \* SpecDebateLog: messages in the log

\* Python truthiness of a text read with get(): None and '' are false
Truthy(text) == text \notin {None, ""}

\* 'WORD' in verdict, for the verdicts the model sends
verdict_contains(verdict, word) ==
    \/ verdict = word
    \/ verdict = "ANALYTICALLY_REJECTED" /\ word = "REJECTED"

\* lines 311-320
debate_entry(factor) ==
    [factor |-> factor, support |-> None, critique |-> None,
     rebuttal |-> None, resolution |-> None, is_rejected |-> FALSE]

\* lines 354-358: the verdict of the first CRITIQUE of the factor, None
\* when there is none
first_verdict(all_messages, factor_id) ==
    LET at == {i \in 1 .. Len(all_messages) :
                  /\ all_messages[i].factor_id = factor_id
                  /\ all_messages[i].type = "CRITIQUE"}
    IN  IF at = {} THEN None
        ELSE all_messages[CHOOSE i \in at : \A j \in at : i <= j].verdict

\* lines 328-360: what one message of the factor does to its entry
debate_message(entry, msg, all_messages) ==
    IF msg.type = "SUPPORT_ARGUMENT"
    THEN [entry EXCEPT !.support = msg.argument]
    ELSE IF msg.type = "CRITIQUE"
    THEN IF verdict_contains(msg.verdict, "REJECTED")
         THEN [entry EXCEPT !.critique = msg.argument,
                            !.resolution = "REJECTED", !.is_rejected = TRUE]
         ELSE IF /\ verdict_contains(msg.verdict, "WEAKENED")
                 /\ entry.resolution # "REJECTED"
         THEN [entry EXCEPT !.critique = msg.argument,
                            !.resolution = "WEAKENED"]
         ELSE [entry EXCEPT !.critique = msg.argument]
    ELSE IF msg.type = "REBUTTAL"
    THEN IF msg.is_concession
         THEN [entry EXCEPT !.rebuttal = msg.rebuttal,
                            !.resolution = "REJECTED", !.is_rejected = TRUE]
         ELSE IF msg.resolution_status = "WEAKENED"
         THEN [entry EXCEPT !.rebuttal = msg.rebuttal,
                            !.resolution = "WEAKENED"]
         ELSE IF /\ entry.resolution # "REJECTED"
                 /\ Truthy(entry.critique)
                 /\ Truthy(first_verdict(all_messages, msg.factor_id))
                 /\ ~verdict_contains(
                        first_verdict(all_messages, msg.factor_id), "REJECTED")
         THEN [entry EXCEPT !.rebuttal = msg.rebuttal,
                            !.resolution = "PARTIALLY_ACCEPTED"]
         ELSE [entry EXCEPT !.rebuttal = msg.rebuttal]
    ELSE entry

RECURSIVE debate_after(_, _, _)
\* lines 323-326: the entry of the factor after the first n messages; a
\* message whose factor_id is false or names no entry is passed over
debate_after(factor, all_messages, n) ==
    IF n = 0 THEN debate_entry(factor)
    ELSE LET entry == debate_after(factor, all_messages, n - 1)
             msg == all_messages[n]
         IN  IF Falsy(msg.factor_id) \/ msg.factor_id # factor.id THEN entry
             ELSE debate_message(entry, msg, all_messages)

\* lines 363-373
default_resolution(entry) ==
    IF Truthy(entry.resolution) THEN entry.resolution
    ELSE IF Truthy(entry.support) /\ Truthy(entry.critique)
    THEN IF Truthy(entry.rebuttal) THEN "PARTIALLY_ACCEPTED" ELSE "WEAKENED"
    ELSE IF Truthy(entry.support) THEN "ACCEPTED"
    ELSE "NO_SUPPORT"

\* the last factor with an id has the entry of that id
build_debate_log(fs, all_messages) ==
    [fid \in {fs[i].id : i \in 1 .. Len(fs)} |->
        LET factor == fs[CHOOSE i \in 1 .. Len(fs) :
                            /\ fs[i].id = fid
                            /\ \A j \in (i + 1) .. Len(fs) : fs[j].id # fid]
            entry == debate_after(factor, all_messages, Len(all_messages))
        IN  [entry EXCEPT !.resolution = default_resolution(entry)]]

\* a message of the log with the two keys only _build_debate_log reads
DebateMsg(type, factor_id, argument) ==
    [Msg(type) EXCEPT !.factor_id = factor_id, !.agent_id = None]
        @@ [argument |-> argument, resolution_status |-> None]

\* the messages about a factor: support with a text and with the empty
\* string, critiques with each verdict and with none, a conceding and a
\* quoting rebuttal, and a rebuttal that carries resolution_status
DebateMessages(factor_id) ==
    {DebateMsg("SUPPORT_ARGUMENT", factor_id, t) : t \in {"text", ""}}
    \cup
    {[DebateMsg("CRITIQUE", factor_id, "text") EXCEPT !.verdict = v] :
        v \in {"ACCEPTED", "PARTIALLY_ACCEPTED", "REJECTED", "WEAKENED", None}}
    \cup
    {[DebateMsg("REBUTTAL", factor_id, None) EXCEPT
         !.rebuttal = "text", !.is_concession = c] : c \in BOOLEAN}
    \cup
    {[DebateMsg("REBUTTAL", factor_id, None) EXCEPT
         !.rebuttal = "text", !.resolution_status = "WEAKENED"]}

InitDebateLog ==
    /\ assumption_tracker = EmptyTracker
    /\ db = EmptyDict
    /\ Wired /\ notify = "returns"
    /\ AgentsFresh
    /\ handled_by = EmptyDict
    /\ resolutions = EmptyDict
    /\ checks = EmptyDict
    /\ claim = NoClaim
    /\ idx = 0 /\ support = Unassigned /\ critique = Unassigned
    /\ synthesis = Unassigned /\ result = Unassigned
    /\ stack = <<>>
    /\ input_len = 0
    /\ llm = None
    /\ pc = "final"
    /\ \E fid \in {"f1", ZeroId} :
           /\ factors = <<PlainFactor(fid)>>
           /\ messages \in UNION {[1 .. n -> DebateMessages(fid)] :
                                     n \in 0 .. MaxLogLen}
    /\ last = [op |-> "init"]

\* generate_final_report, line 68
BuildDebateLog ==
    /\ pc = "final"
    /\ pc' = "reported"
    /\ last' = [op |-> "_build_debate_log",
                debate_log |-> build_debate_log(factors, messages)]
    /\ UNCHANGED <<messages, factors, handled_by, resolutions, support_claims,
                   critic_claims, rebuttals_issued, checks, idx, support,
                   critique, synthesis, result, input_len, llm, registry, enabled,
                   subscriptions, notify, db, assumption_tracker,
                   activations, stack,
                   claim>>

SpecDebateLog == InitDebateLog /\ [][BuildDebateLog]_vars

\* the messages of the log about the factor of the session, by type
LogOf(type) ==
    {i \in 1 .. Len(messages) :
        messages[i].type = type /\ messages[i].factor_id = factors[1].id}

\* some CRITIQUE of the factor has a verdict containing REJECTED, or some
\* REBUTTAL of it is a concession
RejectedInLog ==
    \/ \E i \in LogOf("CRITIQUE") : messages[i].verdict = "REJECTED"
    \/ \E i \in LogOf("REBUTTAL") : messages[i].is_concession

\* no message sets a resolution: no verdict names REJECTED or WEAKENED, no
\* REBUTTAL concedes or carries resolution_status
NothingResolved ==
    /\ ~RejectedInLog
    /\ \A i \in LogOf("CRITIQUE") : messages[i].verdict # "WEAKENED"
    /\ \A i \in LogOf("REBUTTAL") : messages[i].resolution_status = None

BuiltEntry == last.debate_log[factors[1].id]

\* C30: the entry of a factor with a REJECTED verdict or a concession in the
\* log is REJECTED and is_rejected, whatever else the log holds about it;
\* with no message setting a resolution the entry is ACCEPTED for support
\* alone, WEAKENED for support and critique, PARTIALLY_ACCEPTED for support,
\* critique and rebuttal, NO_SUPPORT without support
C30_DebateLogResolution ==
    last.op = "_build_debate_log" =>
        /\ RejectedInLog =>
               BuiltEntry.resolution = "REJECTED" /\ BuiltEntry.is_rejected
        /\ NothingResolved =>
               BuiltEntry.resolution =
                   IF LogOf("SUPPORT_ARGUMENT") = {} THEN "NO_SUPPORT"
                   ELSE IF LogOf("CRITIQUE") = {} THEN "ACCEPTED"
                   ELSE IF LogOf("REBUTTAL") = {} THEN "WEAKENED"
                   ELSE "PARTIALLY_ACCEPTED"

-----------------------------------------------------------------------------
(* SpecTwice: the tasks of one publish interleave.  The critic's handler    *)
(* of SUPPORT_ARGUMENT may be subscribed a second time; publish creates one *)
(* task per subscription, each task runs to its await of the model's        *)
(* answer, and the answers arrive in any order.  stack holds the tasks      *)
(* created and not yet started, activations those waiting for the model.    *)

MaxSubscriptions == 2  \* subscriptions of one handler to one type

\* MessageBus.subscribe: the handler is appended, listed or not
subscribe(subs, message_type, handler) ==
    Put(subs, message_type,
        (IF Has(subs, message_type) THEN subs[message_type] ELSE <<>>)
            \o <<handler>>)

InitTwice ==
    /\ assumption_tracker = EmptyTracker
    /\ db = EmptyDict
    /\ registry = OrchestratorRegistry /\ enabled = TRUE
    /\ subscriptions = CriticSubscriptions
    /\ activations = <<>> /\ notify = "returns"
    /\ AgentsFresh
    /\ handled_by = EmptyDict
    /\ resolutions = EmptyDict
    /\ checks = EmptyDict
    /\ claim = NoClaim
    /\ synthesis = Unassigned /\ result = Unassigned
    /\ critique = Unassigned /\ support = Unassigned
    /\ stack = <<>>
    /\ pc = "support_factor" /\ idx = 1
    /\ input_len \in InputLens
    /\ llm \in {LLM([insufficient |-> FALSE], c, RebuttalText(0, {}), None,
                    None) : c \in CritiqueResponses}
    /\ \E f \in CriticFactors :
           /\ factors = <<f>>
           /\ messages =
                  <<[Msg("FACTOR_LIST") EXCEPT
                        !.id = 0, !.publisher = EXTRACTION,
                        !.agent_id = EXTRACTION, !.factors = <<f>>],
                    [Msg("FACTOR_DISCOVERED") EXCEPT
                        !.id = 1, !.publisher = EXTRACTION,
                        !.factor = f, !.factor_id = f.id]>>
    /\ last = [op |-> "init", reactive |-> FALSE]

\* _on_support_argument is subscribed once more
SubscribeAgain ==
    /\ AnalyzeAt("support_factor")
    /\ Len(Subscribers("SUPPORT_ARGUMENT")) < MaxSubscriptions
    /\ subscriptions' = subscribe(subscriptions, "SUPPORT_ARGUMENT",
                                  "_on_support_argument")
    /\ last' = [op |-> "subscribe", reactive |-> FALSE]
    /\ UNCHANGED <<messages, factors, handled_by, resolutions, support_claims,
                   critic_claims, rebuttals_issued, checks, pc, idx, support,
                   critique, synthesis, result, input_len, llm, stack, claim,
                   registry, enabled, notify, db, assumption_tracker, activations>>

\* a task of _on_support_argument runs from its start (line 53) to the
\* await of the model's answer in critique_factor (line 231), or returns
TaskStarts ==
    /\ Running("_on_support_argument")
    /\ LET message == messages[Top.m]
           skip == \/ is_handled_by(handled_by, message.id, CRITIC)
                   \/ Falsy(message.factor_id)
                   \/ ~HasFactor(factors, message.factor_id)
       IN  /\ stack' = Rest
           /\ activations' =
                  IF skip THEN activations
                  ELSE Append(activations,
                              [handler |-> Top.handler, m |-> Top.m])
           /\ last' = [op |-> "_on_support_argument", m |-> Top.m,
                       reactive |-> TRUE, skipped |-> skip]
    /\ UNCHANGED <<messages, factors, handled_by, resolutions, support_claims,
                   critic_claims, rebuttals_issued, checks, pc, idx, support,
                   critique, synthesis, result, input_len, llm, claim,
                   registry, enabled, subscriptions, notify, db, assumption_tracker>>

\* the model answers a waiting task: the rest of critique_factor, whose
\* publish has no subscriber to await, then mark_handled (lines 74-76)
TaskResumes ==
    \E i \in 1 .. Len(activations) :
        LET m == activations[i].m
            message == messages[m]
            factor == get_factor(factors, message.factor_id)
            r == critique_factor(World, factor, message, input_len,
                                 llm.critique)
            w == IF r.raised THEN World
                 ELSE [r.w EXCEPT !.handled_by =
                          mark_handled(handled_by, message.id, CRITIC)]
        IN  /\ Becomes(w)
            /\ activations' = [j \in 1 .. (Len(activations) - 1) |->
                                  IF j < i THEN activations[j]
                                  ELSE activations[j + 1]]
            /\ last' = [op |-> "critique_factor", m |-> m, reactive |-> TRUE,
                        published |-> Len(w.messages) - Len(messages),
                        raised |-> r.raised]
            /\ UNCHANGED <<checks, pc, idx, support, critique, synthesis,
                           result, input_len, llm, claim, registry, enabled,
                           subscriptions, notify, db, assumption_tracker>>

NextTwice ==
    \/ SubscribeAgain
    \/ SupportFactor
    \/ TaskStarts
    \/ TaskResumes

SpecTwice == InitTwice /\ [][NextTwice]_vars

\* the CRITIQUEs published for the SUPPORT_ARGUMENT at place s of the log
CritiquesFor(s) ==
    {i \in (s + 1) .. Len(messages) :
        /\ messages[i].type = "CRITIQUE"
        /\ messages[i].factor_id = messages[s].factor_id}

\* every task the publish of the SUPPORT_ARGUMENT created has ended
TasksOver == stack = <<>> /\ activations = <<>>

\* C21: a SUPPORT_ARGUMENT that reaches _on_support_argument through two
\* concurrently running tasks is processed once: never more than one
\* CRITIQUE is published for it, and exactly one when the tasks have ended
C21_ProcessedOnce ==
    \A s \in 1 .. Len(messages) :
        messages[s].type = "SUPPORT_ARGUMENT" =>
            /\ Cardinality(CritiquesFor(s)) <= 1
            /\ TasksOver => Cardinality(CritiquesFor(s)) = 1

-----------------------------------------------------------------------------
(* SpecLive: the session under a model whose every generate call returns a  *)
(* string.  The event loop runs every task that is ready and the model      *)
(* answers every prompt, so a step that can be taken is taken: weak         *)
(* fairness of Next.  The log is bounded by MaxMessages; a behaviour that   *)
(* fills it with a task still to run stands for one that goes on.           *)

\* models that answer every prompt: the critique rejects the factor; the
\* rebuttal concedes, or quotes the document at length, and then the answer
\* to the re-evaluation prompt keeps the resolution or names a new one
LiveLLMs ==
    {LLM([insufficient |-> FALSE],
         CritiqueResponse("REJECTED", {"REJECT"}, 0), r, e, None) :
        r \in {RebuttalText(60, {"CONCEDE"}), RebuttalText(120, {"QUOTE:"})},
        e \in {"MAINTAIN_ORIGINAL", "ACCEPTED"}}

InitLive ==
    /\ assumption_tracker = EmptyTracker
    /\ db = EmptyDict
    /\ BusEmpty /\ AgentsFresh /\ OrchestratorIdle
    /\ Wired
    /\ resolutions = EmptyDict
    /\ checks = EmptyDict
    /\ input_len = 0
    /\ notify = "returns"
    /\ llm \in LiveLLMs
    /\ claim = NoClaim
    /\ last = [op |-> "init", reactive |-> FALSE]

\* every step of Next changes the place of analyze, the tasks or the log
progress == <<pc, idx, stack, Len(messages)>>

SpecLive == InitLive /\ [][Next]_vars /\ WF_progress(Next)

\* Orchestrator.analyze has returned its result
AnalyzeReturned == pc \in {"done", "failed"}

\* the task at the top is a handler of the chain and none of its early
\* returns applies to its message: it publishes once more
ChainGoesOn ==
    /\ stack # <<>>
    /\ Top.kind = "task"
    /\ LET message == messages[Top.m]
       IN  \/ /\ Top.handler = "_on_critique"
              /\ message.is_update
              /\ ~Falsy(message.factor_id)
              /\ Has(support_claims, message.factor_id)
              /\ Reevaluated(RebutAnswer(llm, rebuttals_issued,
                                         message.factor_id))
           \/ /\ Top.handler = "_on_rebuttal"
              /\ ~is_handled_by(handled_by, message.id, CRITIC)
              /\ ~Falsy(message.factor_id)
              /\ ~message.is_concession
              /\ HasFactor(factors, message.factor_id)
              /\ is_strong_rebuttal(message)
              /\ updated_resolution(llm.reeval) # "MAINTAIN_ORIGINAL"

ChainRecurs == [][ChainGoesOn /\ Room => ChainGoesOn']_vars

\* the bound of the log is met only while the chain runs
LogFullInChain == ~Room => ChainGoesOn


-----------------------------------------------------------------------------
(* The order of the log of a session that succeeded *)

Positions(log, type) == {i \in 1 .. Len(log) : log[i].type = type}

DebateTypes == {"SUPPORT_ARGUMENT", "CRITIQUE", "REBUTTAL"}

AnalyzeSucceeded == pc = "done" /\ result.success

\* C31: in the log of a call of analyze that returned success = true there
\* is exactly one FACTOR_LIST, one SYNTHESIS_NOTE and one FINAL_DIRECTIVE;
\* the FACTOR_LIST is the first message, every SUPPORT_ARGUMENT, CRITIQUE
\* and REBUTTAL comes before the SYNTHESIS_NOTE, and the SYNTHESIS_NOTE
\* comes before the FINAL_DIRECTIVE
C31_LogOrderOnSuccess ==
    AnalyzeSucceeded =>
        LET log == result.all_messages
        IN  /\ log = messages
            /\ Cardinality(Positions(log, "FACTOR_LIST")) = 1
            /\ Cardinality(Positions(log, "SYNTHESIS_NOTE")) = 1
            /\ Cardinality(Positions(log, "FINAL_DIRECTIVE")) = 1
            /\ log[1].type = "FACTOR_LIST"
            /\ \A s \in Positions(log, "SYNTHESIS_NOTE") :
                   /\ \A i \in 1 .. Len(log) :
                          log[i].type \in DebateTypes => i < s
                   /\ \A f \in Positions(log, "FINAL_DIRECTIVE") : s < f

\* a session succeeded whose log holds supports, critiques and rebuttals,
\* those of the handlers and those of the debate loop
C31_Witness ==
    /\ AnalyzeSucceeded
    /\ \A type \in DebateTypes :
           Cardinality(Positions(messages, type)) >= 2


-----------------------------------------------------------------------------
(* One factor is debated at a time *)

FactorTypes == DebateTypes \cup {"FACTOR_DISCOVERED"}

\* a task or the rest of a handler, working on a message about a factor
FactorFrame(i) ==
    /\ stack[i].kind \in {"task", "mark"}
    /\ messages[stack[i].m].type \in FactorTypes

\* the factor ids of the operations in flight on the reactive path
InFlight ==
    {messages[stack[i].m].factor_id :
        i \in {j \in 1 .. Len(stack) : FactorFrame(j)}}

\* the FACTOR_LIST publish is still announcing the factors
Announcing == \E i \in 1 .. Len(stack) : stack[i].kind = "fanout"

\* the factor of the debate loop whose call is awaited, when one is
LoopFactor ==
    IF pc \in {"critique_factor", "rebut"} THEN {factors[idx].id}
    ELSE IF pc \in {"support_factor", "synthesize"} /\ idx > 1 /\ ~Announcing
    THEN {factors[idx - 1].id}
    ELSE {}

\* the messages about a factor logged after message i
FactorMessagesAfter(i) ==
    {j \in (i + 1) .. Len(messages) : messages[j].type \in FactorTypes}

\* C32: during analyze one factor is debated at a time: the operations in
\* flight, started by handlers or by the debate loop, are all about one
\* factor, and every message logged since the oldest message still being
\* handled carries that factor's id
C32_OneFactorAtATime ==
    /\ Cardinality(InFlight) <= 1
    /\ LoopFactor # {} => InFlight \subseteq LoopFactor
    /\ \A i \in 1 .. Len(stack) :
           FactorFrame(i) =>
               \A j \in FactorMessagesAfter(stack[i].m) :
                   messages[j].factor_id = messages[stack[i].m].factor_id

\* the rebuttal a handler issued for the second factor of the loop is with
\* the critic while the log holds the debate of the first
C32_Witness ==
    /\ pc = "rebut" /\ idx = 2
    /\ factors[1].id # factors[2].id
    /\ Running("_on_rebuttal")
    /\ InFlight = {factors[2].id}
    /\ \E j \in 1 .. Len(messages) :
           messages[j].type = "CRITIQUE"
           /\ messages[j].factor_id = factors[1].id


-----------------------------------------------------------------------------
(* The order in which a publish starts its subscribers *)

\* the body of the handler of activation i has begun to run
Started(i) == activations[i].state # "created"

\* no plain function is subscribed after a coroutine function
PlainFirst(handlers) ==
    \A k, l \in 1 .. Len(handlers) :
        k < l /\ handlers[k].async => handlers[l].async

\* C33: each publish starts the handlers subscribed to the type of its
\* message in the order of their subscription, whatever the mix of plain
\* and coroutine functions: a handler has not begun to run while one
\* subscribed before it has not
C33_StartedInSubscriptionOrder ==
    \A p \in 1 .. Len(activations) :
        IsPublish(p) =>
            \A k, l \in 1 .. Cardinality(InvokedBy(p)) :
                k < l /\ Started(p + l) => Started(p + k)

\* the order holds for the lists in which the plain functions come first
StartedInOrderWhenPlainFirst ==
    \A p \in 1 .. Len(activations) :
        IsPublish(p) /\ PlainFirst(Subscribers(messages[activations[p].m].type))
            => \A k, l \in 1 .. Cardinality(InvokedBy(p)) :
                   k < l /\ Started(p + l) => Started(p + k)


-----------------------------------------------------------------------------
(* The indexes of the registry *)

Elements(s) == {s[k] : k \in 1 .. Len(s)}

RegisteredWithRole(role) ==
    {registry.agents[a] :
        a \in {x \in DOMAIN registry.agents :
                  registry.agents[x].capability.role = role}}

RegisteredWithOutputType(message_type) ==
    {registry.agents[a] :
        a \in {x \in DOMAIN registry.agents :
                  message_type \in registry.agents[x].capability.output_types}}

\* the agent is in neither index
Unindexed(reg, agent_id) ==
    /\ \A r \in DOMAIN reg.agents_by_role :
           ~Contains(reg.agents_by_role[r], agent_id)
    /\ \A t \in DOMAIN reg.agents_by_output_type :
           ~Contains(reg.agents_by_output_type[t], agent_id)

\* C34: after any sequence of register and unregister calls,
\* get_agents_by_role(r) and get_agents_by_output_type(t) return exactly the
\* agents that are registered with that role or output type, each once;
\* unregister of a registered id returns true and takes the agent out of
\* the id map, the role index and every output-type index; unregister of
\* an unknown id returns false and changes nothing
C34_IndexesMatchRegistrations ==
    /\ \A r \in AgentRole :
           LET found == get_agents_by_role(registry, r)
           IN  /\ Elements(found) = RegisteredWithRole(r)
               /\ Len(found) = Cardinality(RegisteredWithRole(r))
    /\ \A t \in MessageType :
           LET found == get_agents_by_output_type(registry, t)
           IN  /\ Elements(found) = RegisteredWithOutputType(t)
               /\ Len(found) = Cardinality(RegisteredWithOutputType(t))
    /\ last.op = "unregister" =>
           IF Has(last.before.agents, last.agent_id)
           THEN /\ last.ret
                /\ ~Has(registry.agents, last.agent_id)
                /\ Unindexed(registry, last.agent_id)
                /\ \A x \in DOMAIN last.before.agents :
                       x # last.agent_id =>
                           /\ Has(registry.agents, x)
                           /\ registry.agents[x] = last.before.agents[x]
           ELSE ~last.ret /\ registry = last.before

\* the supporting agent was unregistered while the critic, registered with
\* the same role and the same two output types, stays
C34_Witness ==
    /\ last.op = "unregister"
    /\ last.agent_id = SUPPORTING
    /\ last.ret
    /\ DOMAIN last.before.agents = RegistryIds
    /\ last.before.agents[SUPPORTING].capability =
           last.before.agents[CRITIC].capability
    /\ Cardinality(last.before.agents[CRITIC].capability.output_types) = 2
    /\ last.before.agents_by_role[
           last.before.agents[CRITIC].capability.role][1] = SUPPORTING
    /\ Len(get_agents_by_output_type(registry, "CRITIQUE")) = 1


-----------------------------------------------------------------------------
(* SpecRebut: calls of SupportingAgent.rebut that overlap.  The agent      *)
(* holds a claim for two of three factors; nothing is subscribed to the    *)
(* bus.  A call is suspended at the await of the model (line 271); the     *)
(* calls in flight are resumed in any order.                               *)

MaxRebutCalls == 3

RebutFactors == {"f1", "f2", "f3"}
ClaimedFactors == {"f1", "f2"}

\* the answers of the model: a concession, a quotation
RebutResponses == {RebuttalText(60, {"CONCEDE"}), RebuttalText(120, {"QUOTE:"})}

InitRebut ==
    /\ assumption_tracker = EmptyTracker
    /\ db = EmptyDict
    /\ registry = OrchestratorRegistry
    /\ enabled = TRUE
    /\ subscriptions = EmptyDict
    /\ activations = <<>>
    /\ notify = "returns"
    /\ BusEmpty /\ OrchestratorIdle
    /\ support_claims =
           [f \in ClaimedFactors |-> support_claim(f, [insufficient |-> FALSE])]
    /\ critic_claims = EmptyDict
    /\ rebuttals_issued = EmptyDict
    /\ resolutions = EmptyDict
    /\ checks = EmptyDict
    /\ input_len = 0
    /\ llm = None
    /\ claim = NoClaim
    /\ last = [op |-> "init"]

RebutFrame ==
    UNCHANGED <<checks, pc, idx, support, critique, synthesis, result,
                input_len, llm, registry, enabled, subscriptions, notify, db, assumption_tracker,
                claim>>

\* lines 229-271: rebut returns None without a claim for the factor, or
\* sends its prompt and is suspended; issued is the number of rebuttals of
\* the factor at that moment
RebutStarts ==
    /\ Len(activations) < MaxRebutCalls
    /\ \E factor_id \in RebutFactors :
           LET has_claim == Has(support_claims, factor_id)
               issued == IF Has(rebuttals_issued, factor_id)
                         THEN Len(rebuttals_issued[factor_id]) ELSE 0
           IN  /\ activations' =
                      Append(activations,
                             [kind |-> "rebut", factor_id |-> factor_id,
                              issued |-> issued,
                              state |-> IF has_claim THEN "awaiting"
                                        ELSE "returned",
                              rebuttal_id |-> None])
               /\ last' = [op |-> "rebut", factor_id |-> factor_id]
    /\ UNCHANGED <<messages, factors, handled_by, resolutions,
                   support_claims, critic_claims, rebuttals_issued, stack>>
    /\ RebutFrame

\* lines 271-302: the model has answered one of the suspended calls
RebutResumes ==
    /\ \E i \in 1 .. Len(activations), response \in RebutResponses :
           /\ activations[i].state = "awaiting"
           /\ LET w == rebut(World, activations[i].factor_id, response)
              IN  /\ Becomes(w)
                  /\ activations' =
                         [activations EXCEPT
                             ![i].state = "returned",
                             ![i].rebuttal_id = LastMessage(w).rebuttal_id]
                  /\ last' = [op |-> "rebut_resumed",
                              factor_id |-> activations[i].factor_id]
    /\ RebutFrame

NextRebut ==
    \/ RebutStarts
    \/ RebutResumes

SpecRebut == InitRebut /\ [][NextRebut]_vars

\* the rebuttal_id of the REBUTTALs logged for the factor, in log order
IssuedInLog(factor_id) ==
    LET at == SelectSeq(messages,
                        LAMBDA msg : /\ msg.type = "REBUTTAL"
                                     /\ msg.factor_id = factor_id)
    IN  [n \in 1 .. Len(at) |-> at[n].rebuttal_id]

\* C35: the rebuttal ids issued for one factor are pairwise different,
\* however many rebut calls there are and however they overlap, and the
\* n-th rebuttal of factor f has the id rebuttal_f_(n-1)
C35_RebuttalIdsDistinct ==
    \A f \in RebutFactors :
        LET ids == IF Has(rebuttals_issued, f) THEN rebuttals_issued[f]
                   ELSE <<>>
        IN  /\ \A n \in 1 .. Len(ids) : ids[n] = <<"rebuttal", f, n - 1>>
            /\ \A n, k \in 1 .. Len(ids) : n # k => ids[n] # ids[k]
            /\ IssuedInLog(f) = ids
            /\ Has(support_claims, f) => support_claims[f].rebuttals = ids

\* two calls for one factor and one for another were all suspended before
\* any of them was resumed, and all have published their rebuttal
C35_Witness ==
    /\ Len(activations) = MaxRebutCalls
    /\ \A i \in 1 .. Len(activations) :
           /\ activations[i].state = "returned"
           /\ activations[i].issued = 0
           /\ activations[i].rebuttal_id # None
    /\ Has(rebuttals_issued, "f1") /\ Len(rebuttals_issued["f1"]) = 2
    /\ Has(rebuttals_issued, "f2") /\ Len(rebuttals_issued["f2"]) = 1
    /\ activations[1].rebuttal_id = <<"rebuttal", "f1", 1>>


-----------------------------------------------------------------------------
(* SpecAssumptions: the AssumptionTracker called directly, next to a        *)
(* ResolutionTracker that holds any resolutions of two factors              *)

MaxTracked == 2

AssumptionFactors == {"f1", ZeroId}
AssumptionAgents == {SUPPORTING, CRITIC}

AssumptionResolutions ==
    UNION {{[fid \in S |-> TrackerEntry(fid, st[fid])] :
               st \in [S -> {"ACCEPTED", "REJECTED"}]} :
           S \in SUBSET AssumptionFactors}

InitAssumptions ==
    /\ assumption_tracker = EmptyTracker
    /\ db = EmptyDict
    /\ Wired /\ notify = "returns"
    /\ BusEmpty /\ AgentsFresh /\ OrchestratorIdle
    /\ resolutions \in AssumptionResolutions
    /\ checks = EmptyDict
    /\ input_len = 0
    /\ llm = None
    /\ claim = NoClaim
    /\ last = [op |-> "init"]

AssumptionsFrame ==
    UNCHANGED <<messages, factors, handled_by, resolutions, support_claims,
                critic_claims, rebuttals_issued, checks, pc, idx, support,
                critique, synthesis, result, input_len, llm, stack, claim,
                registry, enabled, subscriptions, notify, db, activations>>

\* register_assumption for a factor id or for None, with the resolution
\* tracker or without
RegisterAssumption ==
    /\ Len(assumption_tracker.assumptions) < MaxTracked
    /\ \E agent_id \in AssumptionAgents,
          factor_id \in AssumptionFactors \cup {"f2", None},
          with_tracker \in BOOLEAN :
           LET call == register_assumption(assumption_tracker, agent_id,
                                           factor_id, "stated", resolutions,
                                           with_tracker)
           IN  /\ assumption_tracker' = call.tracker
               /\ last' = [op |-> "register_assumption",
                           agent_id |-> agent_id, factor_id |-> factor_id,
                           with_tracker |-> with_tracker, ret |-> call.ret,
                           before |-> assumption_tracker]
    /\ AssumptionsFrame

\* AssumptionTracker.clear
AssumptionsClear ==
    /\ assumption_tracker # EmptyTracker
    /\ assumption_tracker' = EmptyTracker
    /\ last' = [op |-> "clear"]
    /\ AssumptionsFrame

NextAssumptions ==
    \/ RegisterAssumption
    \/ AssumptionsClear

SpecAssumptions == InitAssumptions /\ [][NextAssumptions]_vars

\* register_assumption was called as support_factor calls it: for the id of
\* a factor, with the resolution tracker
RegisteredForFactor ==
    /\ last.op = "register_assumption"
    /\ last.with_tracker
    /\ last.factor_id # None

MarkedRejected(factor_id) ==
    Has(resolutions, factor_id) /\ resolutions[factor_id].status = "REJECTED"

ListOf(d, k) == IF Has(d, k) THEN d[k] ELSE <<>>

\* the call appended one record, numbered with the new length of the list,
\* to the list, to the index of the factor and to the index of the agent
RecordedOnce ==
    LET before == last.before
        record == assumption_tracker.assumptions[
                      Len(assumption_tracker.assumptions)]
    IN  /\ last.ret = <<record>>
        /\ assumption_tracker.assumptions = Append(before.assumptions, record)
        /\ record.id = Len(assumption_tracker.assumptions)
        /\ record.factor_id = last.factor_id
        /\ record.agent_id = last.agent_id
        /\ assumption_tracker.assumptions_by_factor =
               Put(before.assumptions_by_factor, last.factor_id,
                   Append(ListOf(before.assumptions_by_factor,
                                 last.factor_id), record))
        /\ assumption_tracker.assumptions_by_agent =
               Put(before.assumptions_by_agent, last.agent_id,
                   Append(ListOf(before.assumptions_by_agent, last.agent_id),
                          record))

\* C36: register_assumption for a factor the Resolution Tracker marks
\* REJECTED returns no record and leaves the assumption list and both
\* indexes as they were; for any other factor it appends exactly one record,
\* whose id is the new length of the list, to the list and to both indexes
C36_RejectedFactorRecordsNothing ==
    RegisteredForFactor =>
        IF MarkedRejected(last.factor_id)
        THEN last.ret = <<>> /\ assumption_tracker = last.before
        ELSE RecordedOnce

\* the statement holds for every factor id that is true in Python
RejectedRecordsNothingUnlessZero ==
    RegisteredForFactor /\ last.factor_id # ZeroId =>
        IF MarkedRejected(last.factor_id)
        THEN last.ret = <<>> /\ assumption_tracker = last.before
        ELSE RecordedOnce


-----------------------------------------------------------------------------
(* SpecAgain: a session, after which analyze is called once more on the    *)
(* same Orchestrator; the second call is followed to the end of its        *)
(* clearing step (line 98)                                                 *)

\* lines 88-98 of a call that follows one that returned
AnalyzeAgain ==
    /\ AnalyzeAt("done") \/ AnalyzeAt("failed")
    /\ messages' = <<>>
    /\ factors' = <<>>
    /\ handled_by' = EmptyDict
    /\ resolutions' = EmptyDict
    /\ checks' = EmptyDict
    /\ assumption_tracker' = EmptyTracker
    /\ input_len' \in InputLens
    /\ pc' = "cleared"
    /\ last' = [op |-> "analyze", reactive |-> FALSE, before |-> World]
    /\ UNCHANGED <<support_claims, critic_claims, rebuttals_issued, idx,
                   support, critique, synthesis, result, llm, registry,
                   enabled, subscriptions, notify, db, activations, stack, claim>>

NextAgain == Next \/ AnalyzeAgain

SpecAgain == Init /\ [][NextAgain]_vars

Cleared == pc = "cleared"

\* what lines 88-91 reset is empty, the wiring is kept
OrchestratorStateCleared ==
    /\ messages = <<>>
    /\ factors = <<>>
    /\ handled_by = EmptyDict
    /\ resolutions = EmptyDict
    /\ assumption_tracker = EmptyTracker
    /\ checks = EmptyDict
    /\ subscriptions = AgentSubscriptions
    /\ registry = OrchestratorRegistry

\* C37: when analyze is called again on the same Orchestrator, after the
\* clearing step the message log, the factor list, the handled map, the
\* resolutions, the assumptions and the integrity checks are empty and the
\* Supporting and Critic agents hold no claims and no rebuttal counters of
\* the previous analysis, while subscriptions and registrations are kept
C37_SecondAnalyzeStartsClean ==
    Cleared =>
        /\ OrchestratorStateCleared
        /\ support_claims = EmptyDict
        /\ critic_claims = EmptyDict
        /\ rebuttals_issued = EmptyDict

\* the bus, the trackers and the checker are reset by every second call
SecondAnalyzeClearsBusAndTrackers == Cleared => OrchestratorStateCleared

\* the agents keep exactly what they held when the first call returned
AgentsKeepPreviousAnalysis ==
    Cleared =>
        /\ support_claims = last.before.support_claims
        /\ critic_claims = last.before.critic_claims
        /\ rebuttals_issued = last.before.rebuttals_issued


-----------------------------------------------------------------------------
(* SpecState: the factors table of the StateManager, written by direct     *)
(* store_factor calls and by FactorAgentService at the start of a session  *)

MaxStoredId == 3

Sessions == {"A", "B"}
StoredIds == 1 .. MaxStoredId

InitState ==
    /\ assumption_tracker = EmptyTracker
    /\ db = EmptyDict
    /\ Wired /\ notify = "returns"
    /\ BusEmpty /\ AgentsFresh /\ OrchestratorIdle
    /\ resolutions = EmptyDict
    /\ checks = EmptyDict
    /\ input_len = 0
    /\ llm = None
    /\ claim = NoClaim
    /\ last = [op |-> "init"]

StateFrame ==
    UNCHANGED <<messages, factors, handled_by, resolutions, support_claims,
                critic_claims, rebuttals_issued, checks, pc, idx, support,
                critique, synthesis, result, input_len, llm, stack, claim,
                registry, enabled, subscriptions, notify, assumption_tracker,
                activations>>

\* await state_manager.store_factor(session_id, factor_id, name, ...)
StoreFactor ==
    /\ \E session_id \in Sessions, factor_id \in StoredIds :
           LET call == store_factor(db, session_id, factor_id, "Factor")
           IN  /\ db' = call.rows
               /\ last' = [op |-> "store_factor", session_id |-> session_id,
                           factor_id |-> factor_id, raised |-> call.raised,
                           before |-> db]
    /\ StateFrame

\* FactorAgentService.process_message of a SESSION_START: the factors 1 and
\* 2 are stored for the session, one call after the other; an exception of
\* the first call ends the handler (base_agent_service.py 122, 142)
ProcessSessionStart ==
    /\ \E session_id \in Sessions :
           LET first == store_factor(db, session_id, 1, "Factor 1")
               second == store_factor(first.rows, session_id, 2, "Factor 2")
           IN  /\ db' = IF first.raised THEN first.rows ELSE second.rows
               /\ last' = [op |-> "process_message",
                           session_id |-> session_id, factor_id |-> 1,
                           raised |-> first.raised \/ second.raised,
                           before |-> db]
    /\ StateFrame

NextState ==
    \/ StoreFactor
    \/ ProcessSessionStart

SpecState == InitState /\ [][NextState]_vars

\* the session holds a factor with the id
StoredFor(rows, session_id, factor_id) ==
    StateManager_get_factor(rows, session_id, factor_id) # <<>>

\* C38: the StateManager keeps the factors of different sessions apart:
\* store_factor of the factor id k succeeds for a session that holds no
\* factor k, also when another session holds a factor with the same id, and
\* get_factors(S) and get_factor(S, k) return the factors stored for S only
C38_SessionsIsolated ==
    /\ last.op = "store_factor"
       /\ ~StoredFor(last.before, last.session_id, last.factor_id)
           => /\ ~last.raised
              /\ StoredFor(db, last.session_id, last.factor_id)
    /\ \A s \in Sessions :
           LET found == StateManager_get_factors(db, s)
           IN  /\ \A n \in 1 .. Len(found) : found[n].session_id = s
               /\ \A k \in StoredIds :
                      LET row == StateManager_get_factor(db, s, k)
                      IN  row # <<>> => /\ row[1].session_id = s
                                        /\ row[1].id = k
                                        /\ \E n \in 1 .. Len(found) :
                                               found[n] = row[1]

\* what is read for a session is of that session, in every state
ReadsStayInSession ==
    \A s \in Sessions :
        LET found == StateManager_get_factors(db, s)
        IN  /\ \A n \in 1 .. Len(found) : found[n].session_id = s
            /\ \A n, k \in 1 .. Len(found) : n < k => found[n].id < found[k].id
            /\ \A k \in StoredIds :
                   LET row == StateManager_get_factor(db, s, k)
                   IN  row # <<>> => row[1].session_id = s /\ row[1].id = k

\* a store succeeds exactly when no session holds a factor with the id
StoreSucceedsForUnusedId ==
    last.op = "store_factor" =>
        (last.raised <=> Has(last.before, last.factor_id))

\* the service stores nothing for a session that starts after another
SecondSessionStoresNothing ==
    (/\ last.op = "process_message"
     /\ \E s \in Sessions :
            s # last.session_id /\ StoredFor(last.before, s, 1))
        => last.raised /\ db = last.before


-----------------------------------------------------------------------------
(* The re-evaluation and the tracker *)

\* the step was a call of _on_rebuttal that re-evaluated the rebuttal
Reevaluation == last.op = "_on_rebuttal" /\ last.reevaluated

\* a re-evaluation awaits the publish of its updated CRITIQUE
ReevaluationInFlight ==
    \E i \in 1 .. Len(stack) :
        /\ stack[i].kind = "mark"
        /\ stack[i].handler = CRITIC
        /\ messages[stack[i].m].type = "REBUTTAL"

\* C39: re_evaluate_after_rebuttal never modifies the Resolution Tracker,
\* also when it publishes an is_update CRITIQUE whose verdict is not the
\* recorded resolution: the tracker is the same after the call as before,
\* and it does not change while the publish of the update is awaited
C39_ReevaluationLeavesTracker ==
    [][(Reevaluation' \/ ReevaluationInFlight) => resolutions' = resolutions]_vars

\* a re-evaluation has published an update whose verdict is not the
\* resolution the tracker holds for the factor
C39_Witness ==
    /\ Reevaluation
    /\ last.published = 1
    /\ ReevaluationInFlight
    /\ LET update == messages[Len(messages)]
       IN  /\ update.type = "CRITIQUE"
           /\ update.is_update
           /\ Has(resolutions, update.factor_id)
           /\ resolutions[update.factor_id].status = "REJECTED"
           /\ update.verdict = "ACCEPTED"


-----------------------------------------------------------------------------
(* The factors the tracker rejected, in the debate log of the final report *)

\* a message of the session as _build_debate_log reads it: 'argument' is
\* the answer of the model the agent published, and no agent writes the
\* key resolution_status
read_by_debate_log(log) ==
    [i \in 1 .. Len(log) |->
        log[i] @@ [argument |-> "text", resolution_status |-> None]]

\* the debate log generate_final_report built from the bus of the session
FinalDebateLog ==
    build_debate_log(result.factors, read_by_debate_log(result.all_messages))

\* generate_final_report: rejected_factor_ids
rejected_factor_ids(debate_log) ==
    {fid \in DOMAIN debate_log : debate_log[fid].is_rejected}

\* C40: when analyze returns success = true, every factor id in the
\* result's resolutions.rejected is an entry of the Final Decision agent's
\* debate log with is_rejected and resolution REJECTED, and so is among the
\* rejected ids given to the prompt of the final report
C40_TrackerRejectedIsRejectedInLog ==
    AnalyzeSucceeded =>
        \A fid \in result.resolutions.rejected :
            /\ fid \in DOMAIN FinalDebateLog
            /\ FinalDebateLog[fid].is_rejected
            /\ FinalDebateLog[fid].resolution = "REJECTED"
            /\ fid \in rejected_factor_ids(FinalDebateLog)


\* every rejected factor whose id is not 0 is rejected in the debate log
NonzeroRejectedIsRejectedInLog ==
    AnalyzeSucceeded =>
        \A fid \in result.resolutions.rejected \ {ZeroId} :
            /\ fid \in rejected_factor_ids(FinalDebateLog)
            /\ FinalDebateLog[fid].resolution = "REJECTED"

\* the tracker rejected the factor with id 0 and the debate log, which
\* skips the messages of a false factor id, has it without support
ZeroRejectedUnsupportedInLog ==
    /\ AnalyzeSucceeded
    /\ ZeroId \in result.resolutions.rejected
    /\ \E i \in 1 .. Len(result.all_messages) :
           /\ result.all_messages[i].type = "CRITIQUE"
           /\ result.all_messages[i].factor_id = ZeroId
           /\ result.all_messages[i].verdict = "REJECTED"
    /\ ~FinalDebateLog[ZeroId].is_rejected
    /\ FinalDebateLog[ZeroId].resolution = "NO_SUPPORT"

=============================================================================
